---- MODULE Spec2Model ----
(***************************************************************************)
(* Readiness polling of the coinbase-agentkit blueprint.                   *)
(*                                                                         *)
(* Three pollers drive AgentEndpoint::check_health in a bounded loop:      *)
(*   "wait_for_health"  AgentEndpoint::wait_for_health                     *)
(*                      (agent_endpoint.rs, and its copy in docker.rs)     *)
(*   "deploy_check"     check_agent_health of deploy_agent.rs              *)
(*   "helpers_check"    check_agent_health of helpers.rs                   *)
(*                                                                         *)
(* Durations are whole milliseconds.  Duration::mul_f32 is modelled in     *)
(* integer arithmetic truncated to the millisecond (what as_millis logs);  *)
(* the f32 rounding of the last nanoseconds is not represented.            *)
(***************************************************************************)
EXTENDS Integers, Sequences, FiniteSets, TLC

VARIABLES poll, twin, wire, dep, client, jobs, agent_ports

vars == <<poll, twin, wire, dep, client, jobs, agent_ports>>

\* What a poll leaves alone: the deployment job, its caller, and the jobs
\* sharing the port map.
rest == <<dep, client, jobs, agent_ports>>

(***************************************************************************)
(* Bounds of the model and constants of the program.                       *)
(***************************************************************************)

\* Largest max_attempts handed to wait_for_health (its callers choose it).
MaxAttemptsArg == 3

DeployMaxAttempts == 15
DeployInitialDelay == 500
HelpersMaxAttempts == 15
HelpersInitialDelay == 1000
HelpersMaxDelay == 5000

\* initial_delay values handed to wait_for_health, in ms.
InitialDelayArgs == {0, 100, 500}

\* Endpoints: a base URL with scheme, host and port; a string that parses as
\* a URL without a host ("localhost" is read as the scheme); a string that
\* does not parse as a URL.
GoodEndpoint == "http://localhost:3000"
HostlessEndpoint == "localhost:3000"
UnparsableEndpoint == "not a url"
Endpoints == {GoodEndpoint, HostlessEndpoint, UnparsableEndpoint}

Min(a, b) == IF a <= b THEN a ELSE b

(***************************************************************************)
(* The HTTP probe: what one GET {base_url}/health can come back with, and  *)
(* check_health's classification of it.                                    *)
(***************************************************************************)

Statuses == {200, 204, 404, 503}
Bodies == {"json", "text", "unreadable"}

Transport(kind) == [t |-> kind, status |-> 0, body |-> "none"]
Http(status, body) == [t |-> "http", status |-> status, body |-> body]

Responses ==
    {Transport(k) : k \in {"timeout", "connect", "error"}}
        \cup {Http(s, b) : s \in Statuses, b \in Bodies}

\* No response received yet.
NoResponse == Transport("none")

\* reqwest refuses a URL that does not parse or has no http(s) scheme: the
\* request fails before anything is sent, with an error that is neither a
\* timeout nor a connect error.
ResponsesOf(endpoint) ==
    IF endpoint \in {HostlessEndpoint, UnparsableEndpoint}
    THEN {Transport("error")} ELSE Responses

\* StatusCode::is_success
IsSuccess(status) == status >= 200 /\ status < 300

ResultOk == [ok |-> TRUE, err |-> <<>>]
ResultErr(msg) == [ok |-> FALSE, err |-> msg]

BodyText(body) ==
    IF body = "unreadable" THEN "Could not read response body" ELSE body

\* Any 2xx response taken as healthy, its body not parsed.
check_health_any_2xx(resp) ==
    IF resp.t = "http"
    THEN IF IsSuccess(resp.status)
         THEN ResultOk
         ELSE ResultErr(<<"Health check returned error status: ",
                          ToString(resp.status), " with body: ",
                          BodyText(resp.body)>>)
    ELSE IF resp.t = "timeout"
         THEN ResultErr(<<"Health check timed out after ">>)
         ELSE IF resp.t = "connect"
              THEN ResultErr(<<"Connection error during health check: ">>)
              ELSE ResultErr(<<"Health check request failed: ">>)

check_health(resp) ==
    IF resp.t = "http"
    THEN IF IsSuccess(resp.status)
         THEN IF resp.body = "json"
              THEN ResultOk
              ELSE ResultErr(<<"Failed to parse health response: ">>)
         ELSE ResultErr(<<"Health check returned error status: ",
                          ToString(resp.status), " with body: ",
                          BodyText(resp.body)>>)
    ELSE IF resp.t = "timeout"
         THEN ResultErr(<<"Health check timed out after ">>)
         ELSE IF resp.t = "connect"
              THEN ResultErr(<<"Connection error during health check: ">>)
              ELSE ResultErr(<<"Health check request failed: ">>)

(***************************************************************************)
(* One poll session: the locals of the running poller and what it has done *)
(* so far.  trace lists its sleeps and probes in the order they happened:  *)
(*   <<"initial_delay", ms>>, <<"backoff", ms>>, <<"probe", attempt>>.     *)
(***************************************************************************)

NoDiag == [tcp |-> "none", logs |-> "none", get |-> "none"]

Idle ==
    [impl |-> "none", endpoint |-> "none",
     max_attempts |-> 0, initial_delay |-> 0, max_delay |-> -1,
     pc |-> "idle", attempt |-> 0,
     probes |-> 0, inflight |-> 0, healthy |-> 0,
     lastErr |-> <<>>, warned |-> <<>>,
     trace |-> <<>>, diag |-> NoDiag,
     ret |-> [tag |-> "none", msg |-> <<>>]]

Ok == [tag |-> "Ok", msg |-> <<>>]
Err(msg) == [tag |-> "Err", msg |-> msg]

\* A poll has returned; with Ok; with Err.
Done(s) == s.pc = "done"
Ready(s) == s.ret.tag = "Ok"
Failed(s) == s.ret.tag = "Err"

wait_for_health(endpoint, max_attempts, initial_delay) ==
    [Idle EXCEPT !.impl = "wait_for_health", !.endpoint = endpoint,
                 !.max_attempts = max_attempts,
                 !.initial_delay = initial_delay,
                 !.pc = "initial_sleep"]

deploy_check_agent_health(endpoint) ==
    [Idle EXCEPT !.impl = "deploy_check", !.endpoint = endpoint,
                 !.max_attempts = DeployMaxAttempts,
                 !.initial_delay = DeployInitialDelay,
                 !.pc = "loop"]

helpers_check_agent_health(endpoint) ==
    [Idle EXCEPT !.impl = "helpers_check", !.endpoint = endpoint,
                 !.max_attempts = HelpersMaxAttempts,
                 !.initial_delay = HelpersInitialDelay,
                 !.max_delay = HelpersMaxDelay,
                 !.pc = "precheck"]

Invocations ==
    {wait_for_health(e, n, d) :
        e \in Endpoints, n \in 0..MaxAttemptsArg, d \in InitialDelayArgs}
        \cup {deploy_check_agent_health(e) : e \in Endpoints}
        \cup {helpers_check_agent_health(e) : e \in Endpoints}

(***************************************************************************)
(* Backoff delays.                                                         *)
(***************************************************************************)

\* d.mul_f32(1.5_f32.powi(k)), in whole milliseconds.
RECURSIVE MulPow15(_, _)
MulPow15(d, k) == IF k <= 0 THEN d ELSE (MulPow15(d, k - 1) * 3) \div 2

\* The exponent taken from the attempt number instead of attempt - 1.
wait_for_health_delay_late(initial_delay, attempt) ==
    MulPow15(initial_delay, attempt)

\* wait_for_health, after failed attempt `attempt`.
wait_for_health_delay(initial_delay, attempt) ==
    MulPow15(initial_delay, attempt - 1)

\* deploy_agent.rs, before attempt `attempt`: mul_f32(1.0 + attempt * 0.2).
deploy_delay(initial_delay, attempt) ==
    (initial_delay * (10 + 2 * attempt)) \div 10

\* std::cmp::max where the cap needs std::cmp::min.
helpers_delay_max(initial_delay, max_delay, attempt) ==
    IF MulPow15(initial_delay, attempt - 1) >= max_delay
    THEN MulPow15(initial_delay, attempt - 1) ELSE max_delay

\* helpers.rs, before attempt `attempt`.
helpers_delay(initial_delay, max_delay, attempt) ==
    Min(MulPow15(initial_delay, attempt - 1), max_delay)

BackoffDelay(s) ==
    CASE s.impl = "wait_for_health" ->
            wait_for_health_delay(s.initial_delay, s.attempt)
      [] s.impl = "deploy_check" ->
            deploy_delay(s.initial_delay, s.attempt)
      [] OTHER ->
            helpers_delay(s.initial_delay, s.max_delay, s.attempt)

(***************************************************************************)
(* The conditions of the loops.                                            *)
(***************************************************************************)

\* The range taken as exclusive of max_attempts (1..max_attempts).
LoopContinuesExclusive(attempt, max_attempts) == attempt + 1 < max_attempts

\* The range taken one too far (attempt <= max_attempts still iterates).
LoopContinuesOneMore(attempt, max_attempts) == attempt <= max_attempts

\* for attempt in 1..=max_attempts: there is a next iteration.
LoopContinues(attempt, max_attempts) == attempt < max_attempts

\* The sleep taken after every failed attempt, the last one included.
SleepsAfterEveryFailure(attempt, max_attempts) == attempt <= max_attempts

\* wait_for_health: "If this isn't the last attempt, wait before trying again".
SleepsAfterFailure(attempt, max_attempts) == attempt < max_attempts

\* The sleep skipped before the second attempt as well.
SleepsBeforeLaterAttempt(attempt) == attempt > 2

\* The sleep taken before every attempt, the first one included.
SleepsBeforeEveryAttempt(attempt) == attempt >= 1

\* check_agent_health: "if attempt > 1" before the attempt.
SleepsBeforeAttempt(attempt) == attempt > 1

\* helpers.rs: the auxiliary GET on the base URL.
BasicGetDue(attempt) == attempt % 3 = 1

\* Where an iteration of check_agent_health goes once its sleep is decided.
BeforeProbe(s, attempt) ==
    IF s.impl = "helpers_check" /\ BasicGetDue(attempt)
    THEN "basic_get" ELSE "probe"

(***************************************************************************)
(* The steps of a poll, as functions of its state and of what the          *)
(* environment answers.                                                    *)
(***************************************************************************)

\* wait_for_health: tokio::time::sleep(initial_delay) before the loop.
InitialSleepStep(s) ==
    [s EXCEPT !.trace = Append(@, <<"initial_delay", s.initial_delay>>),
              !.pc = "loop"]

\* url::Url::parse and Url::host_str of the endpoint.
UrlParses(endpoint) == endpoint # UnparsableEndpoint
UrlHasHost(endpoint) ==
    endpoint \notin {HostlessEndpoint, UnparsableEndpoint}

TcpResults == {"connected", "failed"}
LogsResults == {"unavailable", "clean", "wallet_error"}
GetResults == {"2xx", "404", "other_status", "failed"}

\* The TCP connect result propagated with `?` like the URL parse.
PrecheckStepTcpFatal(s, tcp, logs) ==
    IF ~UrlParses(s.endpoint)
    THEN [s EXCEPT !.ret = Err(<<"Invalid URL: ">>), !.pc = "done"]
    ELSE IF ~UrlHasHost(s.endpoint)
         THEN [s EXCEPT !.ret = Err(<<"No host in URL">>), !.pc = "done"]
         ELSE IF tcp = "failed"
              THEN [s EXCEPT !.diag.tcp = tcp,
                             !.ret = Err(<<"TCP connection failed: ">>),
                             !.pc = "done"]
              ELSE [s EXCEPT !.diag.tcp = tcp, !.diag.logs = logs,
                             !.pc = "loop"]

\* helpers.rs before its loop: URL parse, TCP connect, docker logs.
PrecheckStep(s, tcp, logs) ==
    IF ~UrlParses(s.endpoint)
    THEN [s EXCEPT !.ret = Err(<<"Invalid URL: ">>), !.pc = "done"]
    ELSE IF ~UrlHasHost(s.endpoint)
         THEN [s EXCEPT !.ret = Err(<<"No host in URL">>), !.pc = "done"]
         ELSE [s EXCEPT !.diag.tcp = tcp, !.diag.logs = logs, !.pc = "loop"]

\* The head of the for loop: the next attempt, or the end of the range.
LoopStep(s) ==
    IF LoopContinues(s.attempt, s.max_attempts)
    THEN [s EXCEPT !.attempt = @ + 1,
                   !.pc = IF s.impl = "wait_for_health"
                          THEN "probe"
                          ELSE IF SleepsBeforeAttempt(s.attempt + 1)
                               THEN "backoff"
                               ELSE BeforeProbe(s, s.attempt + 1)]
    ELSE [s EXCEPT !.pc = "exhausted"]

\* tokio::time::sleep(delay) between two attempts.
BackoffStep(s) ==
    [s EXCEPT !.trace = Append(@, <<"backoff", BackoffDelay(s)>>),
              !.pc = IF s.impl = "wait_for_health"
                     THEN "loop" ELSE BeforeProbe(s, s.attempt)]

\* A failed auxiliary GET made to skip the health probe of the attempt.
BasicGetStepSkipsProbe(s, got) ==
    IF got = "failed"
    THEN [s EXCEPT !.diag.get = got, !.pc = "loop"]
    ELSE [s EXCEPT !.diag.get = got, !.pc = "probe"]

\* A 2xx answer to the auxiliary GET taken as the agent being healthy.
BasicGetStepTrusts2xx(s, got) ==
    IF got = "2xx"
    THEN [s EXCEPT !.diag.get = got, !.ret = Ok, !.pc = "done"]
    ELSE [s EXCEPT !.diag.get = got, !.pc = "probe"]

\* helpers.rs: GET endpoint, its result only logged.
BasicGetStep(s, got) ==
    [s EXCEPT !.diag.get = got, !.pc = "probe"]

\* The request spawned and not awaited: the loop goes on while it is out.
SendProbeStepSpawned(s) ==
    [s EXCEPT !.probes = @ + 1, !.inflight = @ + 1,
              !.trace = Append(@, <<"probe", s.attempt>>),
              !.pc = "loop"]

\* check_health sends its request.
SendProbeStep(s) ==
    [s EXCEPT !.probes = @ + 1, !.inflight = @ + 1,
              !.trace = Append(@, <<"probe", s.attempt>>),
              !.pc = "probing"]

\* Exhaustion tested before success: a healthy last attempt is given up.
ReturnOkUnlessLast(s) ==
    IF s.attempt >= s.max_attempts
    THEN [s EXCEPT !.pc = "loop"]
    ELSE [s EXCEPT !.ret = Ok, !.pc = "done"]

\* The Ok(_) arm: return Ok(()) at once, whatever the attempt number.
ReturnOk(s) == [s EXCEPT !.ret = Ok, !.pc = "done"]

\* check_health returns and the loop body matches on its result.
ProbeReturnsStep(s, resp) ==
    LET r == check_health(resp) IN
    IF r.ok
    THEN ReturnOk([s EXCEPT !.inflight = @ - 1, !.healthy = @ + 1])
    ELSE [s EXCEPT !.inflight = @ - 1,
                   !.lastErr = r.err,
                   !.warned = <<ToString(s.attempt)>> \o r.err,
                   !.pc = IF s.impl = "wait_for_health"
                             /\ SleepsAfterFailure(s.attempt, s.max_attempts)
                          THEN "backoff" ELSE "loop"]

\* The last check_health error appended to the returned message.
ExhaustedStepWithCause(s) ==
    [s EXCEPT !.ret = Err(<<"Agent failed to become healthy after ",
                            ToString(s.max_attempts), " attempts">>
                          \o s.lastErr),
              !.pc = "done"]

\* After the loop: format!("Agent failed to become healthy after {} attempts").
ExhaustedStep(s) ==
    [s EXCEPT !.ret = Err(<<"Agent failed to become healthy after ",
                            ToString(s.max_attempts), " attempts">>),
              !.pc = "done"]

(***************************************************************************)
(* Ports.  http_port and websocket_port are u16; None is NoPort.           *)
(***************************************************************************)

U16Max == 65535
DefaultHttpPort == 3000
DefaultWebsocketPort == 3001
NoPort == -1

\* No pair stored for an agent.
NoEntry == [http_port |-> NoPort, websocket_port |-> NoPort]

\* AgentEndpoint::from_port and deploy_locally: format!("http://localhost:{}").
LocalEndpoint(port) == "http://localhost:" \o ToString(port)

\* http_port values a caller of create_agent supplies (NoPort: none), and the
\* port the deployment tests pick (10000 + rand % 1000).
HttpPortArgs == {NoPort, 8080, 65535}
TestHttpPorts == {10000, 10999}

\* a + b on u16.  An overflow panics in a build with overflow checks (debug,
\* test) and wraps around in one without (release).
U16Add(a, b) ==
    IF a + b <= U16Max
    THEN {[panic |-> FALSE, value |-> a + b]}
    ELSE {[panic |-> TRUE, value |-> NoPort],
          [panic |-> FALSE, value |-> (a + b) % (U16Max + 1)]}

\* let websocket_port = http_port + 1;
WebsocketPorts(http_port) ==
    {[panic |-> r.panic, http_port |-> http_port, websocket_port |-> r.value] :
        r \in U16Add(http_port, 1)}

\* create_agent.rs: params.deployment_config.http_port.unwrap_or(3000).
CreateHttpPort(arg) == IF arg = NoPort THEN DefaultHttpPort ELSE arg

\* docker.rs create_agent_compose_config: the two unwrap_or defaults.
ComposeHttpPort(arg) == IF arg = NoPort THEN DefaultHttpPort ELSE arg
ComposeWebsocketPort(arg) == IF arg = NoPort THEN DefaultWebsocketPort ELSE arg

\* An insert that stores nothing.
EntryLost(pair) == NoEntry

Entry(pair) ==
    [http_port |-> pair.http_port, websocket_port |-> pair.websocket_port]

\* What create_agent can have stored in the map for an agent.
StoredEntries ==
    {Entry(pair) :
        pair \in {q \in UNION {WebsocketPorts(CreateHttpPort(a)) :
                                  a \in HttpPortArgs \cup TestHttpPorts} :
                     ~q.panic}}

\* docker-compose.yml as extract_port_config reads it: the file, its first
\* service, and the first entry of that service's ports.
\*   "host_container"     "P:P"
\*   "single"             "P"
\*   "ip_host_container"  "127.0.0.1:P:P"
\*   "bad_host"           "H:P" whose host part H is not a u16
\*   "bad_single"         an entry without colon that is not a u16
Compose(state, form, port) == [state |-> state, form |-> form, port |-> port]

ComposeFiles ==
    {Compose(st, "none", NoPort) :
        st \in {"unreadable", "unparsable", "no_services", "no_ports"}}
        \cup {Compose("mapping", f, pt) :
                f \in {"host_container", "single", "ip_host_container",
                       "bad_host", "bad_single"},
                pt \in {DefaultHttpPort, U16Max}}

PortsOk(pair) ==
    [tag |-> "Ok", http_port |-> pair.http_port,
     websocket_port |-> pair.websocket_port, msg |-> <<>>]
PortsErr(msg) ==
    [tag |-> "Err", http_port |-> NoPort, websocket_port |-> NoPort,
     msg |-> msg]
PortsPanic ==
    [tag |-> "panic", http_port |-> NoPort, websocket_port |-> NoPort,
     msg |-> <<"attempt to add with overflow">>]

PortsOutcomes(http_port) ==
    {IF pair.panic THEN PortsPanic ELSE PortsOk(pair) :
        pair \in WebsocketPorts(http_port)}

\* deploy_agent.rs extract_port_config.
extract_port_config(compose) ==
    CASE compose.state = "unreadable" ->
            {PortsErr(<<"Failed to read docker-compose.yml: ">>)}
      [] compose.state = "unparsable" ->
            {PortsErr(<<"Failed to parse docker-compose.yml: ">>)}
      [] compose.state = "no_services" ->
            {PortsErr(<<"No services found in docker-compose.yml">>)}
      [] compose.state = "no_ports" -> PortsOutcomes(DefaultHttpPort)
      [] OTHER ->
            CASE compose.form = "host_container" -> PortsOutcomes(compose.port)
              [] compose.form = "single" -> PortsOutcomes(compose.port)
              [] compose.form = "ip_host_container" ->
                    {PortsErr(<<"Failed to parse host port from '">>)}
              [] compose.form = "bad_host" ->
                    {PortsErr(<<"Failed to parse host port from '">>)}
              [] OTHER -> {PortsErr(<<"Failed to parse port from '">>)}

\* deploy_agent.rs get_agent_ports: the stored pair, else the compose file.
get_agent_ports(entry, compose) ==
    IF entry # NoEntry
    THEN {PortsOk(entry)}
    ELSE extract_port_config(compose)

(***************************************************************************)
(* One handle_deploy_agent invocation, its caller, and the jobs that share *)
(* the agent-id to port-pair map: the values before anything has run.      *)
(***************************************************************************)

NoReturn == [tag |-> "none", endpoint |-> "none", msg |-> <<>>]

\* DeployAgentParams::api_key_config with the fallback to the process
\* environment applied: config says whether api_key_config is Some, and each
\* key is <<>> when neither the config nor the environment has it, <<v>>
\* otherwise, v being the value as a sequence of pieces of text and "\n".
ApiKeys(config, openai, name, private) ==
    [config |-> config, openai_api_key |-> openai, cdp_api_key_name |-> name,
     cdp_api_key_private_key |-> private]
NoKeys == ApiKeys(FALSE, <<>>, <<>>, <<>>)

\* A private key on one line, another one, and one in PEM form, which spans
\* several lines.
PrivateKeys == {<<"pk1">>, <<"pk2">>, <<"pk1", "\n", "pk2">>}

ApiKeyInputs ==
    {NoKeys,
     ApiKeys(TRUE, <<>>, <<<<"org">>>>, <<<<"pk1">>>>),
     ApiKeys(TRUE, <<<<"sk">>>>, <<>>, <<<<"pk1">>>>),
     ApiKeys(TRUE, <<<<"sk">>>>, <<<<"org">>>>, <<>>)}
        \cup {ApiKeys(TRUE, <<<<"sk">>>>, <<<<"org">>>>, <<pk>>) :
                 pk \in PrivateKeys}

NoDeployment ==
    [kind |-> "none", pc |-> "idle",
     port |-> NoPort, websocket_port |-> NoPort,
     launches |-> 0, launched |-> "none", endpoint |-> "none",
     polled |-> 0, health |-> "none", inspected |-> "none",
     missing |-> {}, tee_app_id |-> "none",
     keys |-> NoKeys, logged |-> <<>>,
     ret |-> NoReturn]

NoClient ==
    [test |-> "none", pc |-> "idle", http_port |-> NoPort,
     endpoint |-> "none", polls |-> 0, health |-> "none",
     interacts |-> 0, outcome |-> "none"]

(***************************************************************************)
(* handle_deploy_agent, step by step.                                      *)
(***************************************************************************)

DeployErr(msg) == [tag |-> "Err", endpoint |-> "none", msg |-> msg]
DeployOk(endpoint) == [tag |-> "Ok", endpoint |-> endpoint, msg |-> <<>>]

\* handle_deploy_agent: the parameters, the agent directory, tee_enabled.
DeployStartStep(d, params_ok, dir_exists, tee_enabled) ==
    IF ~params_ok
    THEN [d EXCEPT !.ret = DeployErr(<<"Failed to deserialize parameters: ">>),
                   !.pc = "done"]
    ELSE IF ~dir_exists
         THEN [d EXCEPT
                 !.ret = DeployErr(<<"Agent directory does not exist: ">>),
                 !.pc = "done"]
         ELSE IF tee_enabled
              THEN [d EXCEPT !.kind = "tee", !.pc = "tee_prepare"]
              ELSE [d EXCEPT !.kind = "local", !.pc = "cleanup"]

\* deploy_to_tee before the launch: what can make it return early.
TeePrepareErrors ==
    {<<"PHALA_CLOUD_API_KEY not set">>,
     <<"PHALA_CLOUD_API_ENDPOINT not set">>,
     <<"Failed to read docker-compose.yml: ">>,
     <<"Failed to initialize TeeDeployer: ">>,
     <<"Failed to discover TEEPods: ">>,
     <<"No encrypted environment variables provided for TEE deployment">>,
     <<"Failed to create VM configuration: ">>,
     <<"Failed to get TEE public key: ">>,
     <<"Missing public key in response">>,
     <<"Missing salt in response">>}

\* What deploy_to_tee needs from the context, the agent directory and the
\* caller, and the error it returns when one of them is not there.
TeeInputs == {"api_key", "api_endpoint", "docker_compose", "encrypted_env"}
TeeInputError(input) ==
    CASE input = "api_key" -> <<"PHALA_CLOUD_API_KEY not set">>
      [] input = "api_endpoint" -> <<"PHALA_CLOUD_API_ENDPOINT not set">>
      [] input = "docker_compose" -> <<"Failed to read docker-compose.yml: ">>
      [] OTHER ->
            <<"No encrypted environment variables provided for TEE deployment">>

\* The errors of the calls to the TEE provider and its client before the
\* launch.
TeeProviderErrors == TeePrepareErrors \ {TeeInputError(i) : i \in TeeInputs}

\* The first error deploy_to_tee meets before the launch, in the order of the
\* code; <<>> when there is none.  other is the provider's error, if any.
TeePrepareError(missing, other) ==
    CASE "api_key" \in missing -> TeeInputError("api_key")
      [] "api_key" \notin missing /\ "api_endpoint" \in missing ->
            TeeInputError("api_endpoint")
      [] {"api_key", "api_endpoint"} \cap missing = {}
            /\ "docker_compose" \in missing -> TeeInputError("docker_compose")
      [] {"api_key", "api_endpoint", "docker_compose"} \cap missing = {}
            /\ other \in {<<"Failed to initialize TeeDeployer: ">>,
                          <<"Failed to discover TEEPods: ">>} -> other
      [] {"api_key", "api_endpoint", "docker_compose"} \cap missing = {}
            /\ other \notin {<<"Failed to initialize TeeDeployer: ">>,
                             <<"Failed to discover TEEPods: ">>}
            /\ "encrypted_env" \in missing -> TeeInputError("encrypted_env")
      [] OTHER -> other

\* The check of params.encrypted_env left out.
TeePrepareStepNoEnvCheck(d, missing, other) ==
    IF TeePrepareError(missing \ {"encrypted_env"}, other) # <<>>
    THEN [d EXCEPT !.missing = missing,
                   !.ret = DeployErr(TeePrepareError(missing, other)),
                   !.pc = "done"]
    ELSE [d EXCEPT !.missing = missing, !.pc = "tee_launch"]

\* deploy_to_tee up to the launch.
TeePrepareStep(d, missing, other) ==
    IF TeePrepareError(missing, other) # <<>>
    THEN [d EXCEPT !.missing = missing,
                   !.ret = DeployErr(TeePrepareError(missing, other)),
                   !.pc = "done"]
    ELSE [d EXCEPT !.missing = missing, !.pc = "tee_launch"]

\* deployment["endpoint"] when the TEE API reports one.
TeeEndpoint == "https://tee.example/app"
TeeLaunchResults == {"failed", "endpoint", "no_endpoint"}

\* deployment["id"].as_str(): "none" when the answer has no string id.
TeeAppIds == {"none", "app_1"}

\* deployer.deploy_with_encrypted_env(...).await
TeeLaunchStep(d, result, app_id) ==
    IF result = "failed"
    THEN [d EXCEPT !.launches = @ + 1, !.launched = "failed",
                   !.ret = DeployErr(<<"Failed to deploy to TEE: ">>),
                   !.pc = "done"]
    ELSE [d EXCEPT !.launches = @ + 1, !.launched = "ok",
                   !.endpoint = IF result = "endpoint"
                                THEN TeeEndpoint ELSE "none",
                   !.tee_app_id = app_id,
                   !.pc = "tee_return"]

\* deploy_to_tee: the result, serialized.
TeeReturnStep(d) == [d EXCEPT !.ret = DeployOk(d.endpoint), !.pc = "done"]

\* deploy_locally: docker-compose down --remove-orphans, its result logged.
CleanupStep(d) == [d EXCEPT !.pc = "ports"]

\* deploy_locally: let (port, websocket_port) = get_agent_ports(...)?;
PortsStep(d, ports) ==
    CASE ports.tag = "Ok" ->
            [d EXCEPT !.port = ports.http_port,
                      !.websocket_port = ports.websocket_port,
                      !.pc = "env"]
      [] ports.tag = "Err" ->
            [d EXCEPT !.ret = DeployErr(ports.msg), !.pc = "done"]
      [] OTHER -> [d EXCEPT !.pc = "panicked"]

\* deploy_locally between the ports and the launch: what can make it return.
LocalPrepareErrors ==
    {<<"API key configuration is required. No test values will be provided.">>,
     <<"OPENAI_API_KEY not found in ApiKeyConfig or environment">>,
     <<"CDP_API_KEY_NAME not found in ApiKeyConfig or environment">>,
     <<"CDP_API_KEY_PRIVATE_KEY not found in ApiKeyConfig or environment">>,
     <<"Failed to write .env file: ">>,
     <<"docker-compose.yml not found at ">>}

\* NAME=value\n as pieces of text.
EnvLine(name, value) == <<name, "=">> \o value \o <<"\n">>

EnvOk(content) == [tag |-> "Ok", content |-> content, msg |-> <<>>]
EnvErr(msg) == [tag |-> "Err", content |-> <<>>, msg |-> msg]

\* deploy_agent.rs create_env_content.
create_env_content(port, websocket_port, keys) ==
    CASE ~keys.config ->
            EnvErr(<<"API key configuration is required. No test values will be provided.">>)
      [] keys.config /\ keys.openai_api_key = <<>> ->
            EnvErr(<<"OPENAI_API_KEY not found in ApiKeyConfig or environment">>)
      [] keys.config /\ keys.openai_api_key # <<>>
            /\ keys.cdp_api_key_name = <<>> ->
            EnvErr(<<"CDP_API_KEY_NAME not found in ApiKeyConfig or environment">>)
      [] keys.config /\ keys.openai_api_key # <<>>
            /\ keys.cdp_api_key_name # <<>>
            /\ keys.cdp_api_key_private_key = <<>> ->
            EnvErr(<<"CDP_API_KEY_PRIVATE_KEY not found in ApiKeyConfig or environment">>)
      [] OTHER ->
            EnvOk(EnvLine("PORT", <<ToString(port)>>)
                  \o EnvLine("WEBSOCKET_PORT", <<ToString(websocket_port)>>)
                  \o EnvLine("CONTAINER_NAME", <<"coinbase-agent-">>)
                  \o EnvLine("NODE_ENV", <<"development">>)
                  \o EnvLine("AGENT_MODE", <<"http">>)
                  \o EnvLine("MODEL", <<"gpt-4o-mini">>)
                  \o EnvLine("LOG_LEVEL", <<"debug">>)
                  \o EnvLine("WEBSOCKET_URL",
                             <<"ws://localhost:", ToString(websocket_port)>>)
                  \o EnvLine("OPENAI_API_KEY", keys.openai_api_key[1])
                  \o EnvLine("CDP_API_KEY_NAME", keys.cdp_api_key_name[1])
                  \o EnvLine("CDP_API_KEY_PRIVATE_KEY",
                             keys.cdp_api_key_private_key[1])
                  \o EnvLine("RUN_TESTS", <<"false">>))

\* str::lines(): the text cut at every "\n"; a final "\n" ends the last line
\* and starts no empty one.
RECURSIVE LinesFrom(_, _)
LinesFrom(text, line) ==
    IF text = <<>>
    THEN IF line = <<>> THEN <<>> ELSE <<line>>
    ELSE IF Head(text) = "\n"
         THEN <<line>> \o LinesFrom(Tail(text), <<>>)
         ELSE LinesFrom(Tail(text), Append(line, Head(text)))

\* line.contains("API_KEY") || line.contains("PRIVATE_KEY"), for the pieces
\* of text an env file is made of here.
IsSensitive(line) ==
    \E i \in DOMAIN line :
       line[i] \in {"OPENAI_API_KEY", "CDP_API_KEY_NAME",
                    "CDP_API_KEY_PRIVATE_KEY"}

\* line.splitn(2, '=')[0] when the line has a '='.
BeforeEquals(line) ==
    SubSeq(line, 1, (CHOOSE i \in DOMAIN line :
                        line[i] = "=" /\ \A k \in 1..(i - 1) : line[k] # "=") - 1)

\* What the loop over env_content.lines() logs for one line.
LoggedFor(line) ==
    IF IsSensitive(line)
    THEN IF \E i \in DOMAIN line : line[i] = "="
         THEN <<BeforeEquals(line) \o <<"=***REDACTED***">>>>
         ELSE <<>>
    ELSE <<line>>

RECURSIVE LoggedLines(_)
LoggedLines(lines) ==
    IF lines = <<>> THEN <<>>
    ELSE LoggedFor(Head(lines)) \o LoggedLines(Tail(lines))

\* deploy_locally: "Environment variables prepared (sensitive values
\* redacted):" and the lines after it.
LoggedEnv(content) == LoggedLines(LinesFrom(content, <<>>))

\* An unresolvable key replaced by a placeholder and the deployment going on.
EnvStepPlaceholderKeys(d, keys, write_ok, compose_exists) ==
    [d EXCEPT !.keys = keys, !.pc = "launch"]

\* create_env_content(..)?, the log of the environment, fs::write of .env,
\* compose_path.exists().
EnvStep(d, keys, write_ok, compose_exists) ==
    LET env == create_env_content(d.port, d.websocket_port, keys)
    IN  CASE env.tag = "Err" ->
                [d EXCEPT !.keys = keys, !.ret = DeployErr(env.msg),
                          !.pc = "done"]
          [] env.tag = "Ok" /\ ~write_ok ->
                [d EXCEPT !.keys = keys, !.logged = LoggedEnv(env.content),
                          !.ret = DeployErr(<<"Failed to write .env file: ">>),
                          !.pc = "done"]
          [] env.tag = "Ok" /\ write_ok /\ ~compose_exists ->
                [d EXCEPT !.keys = keys, !.logged = LoggedEnv(env.content),
                          !.ret = DeployErr(<<"docker-compose.yml not found at ">>),
                          !.pc = "done"]
          [] OTHER ->
                [d EXCEPT !.keys = keys, !.logged = LoggedEnv(env.content),
                          !.pc = "launch"]

LaunchResults == {"spawn_failed", "exit_failure", "ok"}

\* A failed docker-compose up -d only logged, the deployment going on.
LaunchStepIgnoresFailure(d, result) ==
    [d EXCEPT !.launches = @ + 1,
              !.launched = IF result = "ok" THEN "ok" ELSE "failed",
              !.pc = "verify"]

\* docker-compose up -d.
LaunchStep(d, result) ==
    IF result = "ok"
    THEN [d EXCEPT !.launches = @ + 1, !.launched = "ok", !.pc = "verify"]
    ELSE [d EXCEPT !.launches = @ + 1, !.launched = "failed",
                   !.ret = DeployErr(<<"Failed to start Docker container: ">>),
                   !.pc = "done"]

\* docker-compose ps and logs, the endpoint, the 5 s sleep, lsof, and the
\* call of check_agent_health(&endpoint).
StartHealthStep(d) ==
    [d EXCEPT !.endpoint = LocalEndpoint(d.port),
              !.polled = @ + 1,
              !.pc = "health"]

\* The failed health check propagated to the caller.
HealthReturnsStepFatal(d, verdict) ==
    IF verdict.tag = "Ok"
    THEN [d EXCEPT !.health = "Ok", !.pc = "return"]
    ELSE [d EXCEPT !.health = "Err", !.ret = DeployErr(verdict.msg),
                   !.pc = "done"]

\* The container started again when the health check fails.
HealthReturnsStepRelaunch(d, verdict) ==
    [d EXCEPT !.health = verdict.tag,
              !.pc = IF verdict.tag = "Ok" THEN "return" ELSE "launch"]

\* The health check result dropped instead of matched on.
HealthReturnsStepDropped(d, verdict) ==
    [d EXCEPT !.pc = "return"]

\* match check_agent_health(&endpoint).await { Ok(_) => ..., Err(e) => ... }
HealthReturnsStep(d, verdict) ==
    [d EXCEPT !.health = verdict.tag,
              !.pc = IF verdict.tag = "Ok" THEN "return" ELSE "diagnose"]

InspectResults == {"printed", "failed"}

\* The Err arm: docker inspect and docker logs, their results logged.
DiagnoseStep(d, inspect) ==
    [d EXCEPT !.inspected = inspect, !.pc = "return"]

\* deploy_locally: the result, serialized.
LocalReturnStep(d) == [d EXCEPT !.ret = DeployOk(d.endpoint), !.pc = "done"]

(***************************************************************************)
(* The callers of handle_deploy_agent: the job runner, and the two tests   *)
(* that go on to interact with the agent.                                  *)
(***************************************************************************)

Callers == {"job", "test_deploy_agent_interaction", "test_deploy_agent_tee"}

\* The policies the tests hand to wait_for_health.
InteractionTestAttempts == 15
InteractionTestDelay == 500
TeeTestAttempts == 30
TeeTestDelay == 1000

CallerPorts(test) ==
    IF test = "test_deploy_agent_interaction" THEN TestHttpPorts ELSE {NoPort}

\* The endpoint a test polls once handle_deploy_agent has returned Ok.
ClientEndpoint(c) ==
    IF c.test = "test_deploy_agent_interaction"
    THEN LocalEndpoint(c.http_port)
    ELSE LocalEndpoint(DefaultHttpPort)

SkipOrPanic == {"skipped", "panicked"}

\* The caller once handle_deploy_agent has returned (or panicked).
ClientAfterDeployStep(c, d, on_err) ==
    IF c.test = "job"
    THEN [c EXCEPT !.outcome = "returned", !.pc = "done"]
    ELSE IF d.ret.tag = "Ok"
         THEN [c EXCEPT !.endpoint = ClientEndpoint(c), !.polls = @ + 1,
                        !.pc = "waiting"]
         ELSE [c EXCEPT !.outcome = IF d.pc = "panicked"
                                     THEN "panicked" ELSE on_err,
                        !.pc = "done"]

\* The poll the test starts.
ClientPoll(c) ==
    IF c.test = "test_deploy_agent_interaction"
    THEN wait_for_health(c.endpoint, InteractionTestAttempts,
                         InteractionTestDelay)
    ELSE wait_for_health(c.endpoint, TeeTestAttempts, TeeTestDelay)

\* The request sent whatever wait_for_health returned.
ClientAfterWaitStepAnyway(c, verdict) ==
    [c EXCEPT !.health = verdict.tag, !.pc = "interact"]

\* if let Err(e) = agent.wait_for_health(..) { panic! } / match .. { Ok, Err }
ClientAfterWaitStep(c, verdict) ==
    IF verdict.tag = "Ok"
    THEN [c EXCEPT !.health = "Ok", !.pc = "interact"]
    ELSE [c EXCEPT !.health = "Err",
                   !.outcome = IF c.test = "test_deploy_agent_interaction"
                               THEN "panicked" ELSE "completed",
                   !.pc = "done"]

\* agent.interact(message, timeout): POST {base_url}/interact is sent.
ClientInteractStep(c) ==
    [c EXCEPT !.interacts = @ + 1, !.pc = "interacting"]

InteractResults == {"response", "empty_response", "no_response_field", "failed"}

\* The answer to the interaction, and the end of the test.
ClientInteractReturnsStep(c, result) ==
    [c EXCEPT !.outcome = IF c.test = "test_deploy_agent_tee"
                          THEN "completed"
                          ELSE IF result = "response"
                               THEN "passed" ELSE "panicked",
              !.pc = "done"]

\* Jobs running at the same time against one ServiceContext.
MaxJobs == 2
JobIds == 1..MaxJobs

\* Uuid::new_v4: the agent a create_agent job creates is its own; agent 0 has
\* a directory left by an earlier run of the service.
AgentIds == 0..MaxJobs

\* No docker-compose.yml in an agent's directory.
NoCompose == Compose("unreadable", "none", NoPort)

\* A job before it is called.  dir, files and compose are the agent directory
\* a create_agent job makes; tee_public_key is Option<String>, <<>> for None.
NoJob ==
    [kind |-> "none", pc |-> "idle", agent_id |-> NoPort,
     arg |-> NoPort, http_port |-> NoPort, websocket_port |-> NoPort,
     found |-> FALSE, ret |-> "none",
     dir |-> FALSE, files |-> {}, compose |-> NoCompose,
     tee_enabled |-> FALSE, tee_public_key |-> <<>>]

NoJobs == [j \in JobIds |-> NoJob]

\* Arc<Mutex<HashMap<String, AgentPortConfig>>>: holder 0 is an unlocked mutex.
NoAgentPorts == [holder |-> 0, map |-> [a \in AgentIds |-> NoEntry]]

(***************************************************************************)
(* One poll.                                                               *)
(***************************************************************************)

Init ==
    /\ poll = Idle /\ twin = Idle /\ wire = NoResponse
    /\ dep = NoDeployment /\ client = NoClient
    /\ jobs = NoJobs /\ agent_ports = NoAgentPorts

CallWaitForHealth ==
    /\ poll.pc = "idle" /\ dep.pc = "idle" /\ client.pc = "idle"
    /\ \E e \in Endpoints, n \in 0..MaxAttemptsArg, d \in InitialDelayArgs :
         poll' = wait_for_health(e, n, d)
    /\ UNCHANGED <<twin, wire, rest>>

CallDeployCheck ==
    /\ poll.pc = "idle" /\ dep.pc = "idle" /\ client.pc = "idle"
    /\ \E e \in Endpoints : poll' = deploy_check_agent_health(e)
    /\ UNCHANGED <<twin, wire, rest>>

CallHelpersCheck ==
    /\ poll.pc = "idle" /\ dep.pc = "idle" /\ client.pc = "idle"
    /\ \E e \in Endpoints : poll' = helpers_check_agent_health(e)
    /\ UNCHANGED <<twin, wire, rest>>

InitialSleep ==
    /\ poll.pc = "initial_sleep"
    /\ poll' = InitialSleepStep(poll)
    /\ UNCHANGED <<twin, wire, rest>>

Precheck ==
    /\ poll.pc = "precheck"
    /\ \E tcp \in TcpResults, logs \in LogsResults :
         poll' = PrecheckStep(poll, tcp, logs)
    /\ UNCHANGED <<twin, wire, rest>>

NextAttempt ==
    /\ poll.pc = "loop"
    /\ poll' = LoopStep(poll)
    /\ UNCHANGED <<twin, wire, rest>>

Backoff ==
    /\ poll.pc = "backoff"
    /\ poll' = BackoffStep(poll)
    /\ UNCHANGED <<twin, wire, rest>>

BasicGet ==
    /\ poll.pc = "basic_get"
    /\ \E got \in GetResults : poll' = BasicGetStep(poll, got)
    /\ UNCHANGED <<twin, wire, rest>>

SendProbe ==
    /\ poll.pc = "probe"
    /\ poll' = SendProbeStep(poll)
    /\ UNCHANGED <<twin, wire, rest>>

ProbeReturns ==
    /\ poll.pc = "probing"
    /\ \E resp \in ResponsesOf(poll.endpoint) :
         /\ poll' = ProbeReturnsStep(poll, resp)
         /\ wire' = resp
    /\ UNCHANGED <<twin, rest>>

ReturnExhausted ==
    /\ poll.pc = "exhausted"
    /\ poll' = ExhaustedStep(poll)
    /\ UNCHANGED <<twin, wire, rest>>

Next ==
    \/ CallWaitForHealth
    \/ CallDeployCheck
    \/ CallHelpersCheck
    \/ InitialSleep
    \/ Precheck
    \/ NextAttempt
    \/ Backoff
    \/ BasicGet
    \/ SendProbe
    \/ ProbeReturns
    \/ ReturnExhausted

Spec == Init /\ [][Next]_vars

\* The runtime keeps polling a task that can make progress.
SpecLive == Spec /\ WF_vars(Next)

(***************************************************************************)
(* Two polls started with the same arguments and fed the same probe        *)
(* responses, each with its own diagnostics results (TCP connect, docker   *)
(* logs, auxiliary GET).                                                   *)
(***************************************************************************)

Both(at) == poll.pc = at /\ twin.pc = at

TwiceCall ==
    /\ Both("idle")
    /\ \E inv \in Invocations : poll' = inv /\ twin' = inv
    /\ UNCHANGED <<wire, rest>>

TwiceInitialSleep ==
    /\ Both("initial_sleep")
    /\ poll' = InitialSleepStep(poll)
    /\ twin' = InitialSleepStep(twin)
    /\ UNCHANGED <<wire, rest>>

TwicePrecheck ==
    /\ Both("precheck")
    /\ \E tcp1 \in TcpResults, logs1 \in LogsResults :
         poll' = PrecheckStep(poll, tcp1, logs1)
    /\ \E tcp2 \in TcpResults, logs2 \in LogsResults :
         twin' = PrecheckStep(twin, tcp2, logs2)
    /\ UNCHANGED <<wire, rest>>

TwiceNextAttempt ==
    /\ Both("loop")
    /\ poll' = LoopStep(poll)
    /\ twin' = LoopStep(twin)
    /\ UNCHANGED <<wire, rest>>

TwiceBackoff ==
    /\ Both("backoff")
    /\ poll' = BackoffStep(poll)
    /\ twin' = BackoffStep(twin)
    /\ UNCHANGED <<wire, rest>>

TwiceBasicGet ==
    /\ Both("basic_get")
    /\ \E got1 \in GetResults : poll' = BasicGetStep(poll, got1)
    /\ \E got2 \in GetResults : twin' = BasicGetStep(twin, got2)
    /\ UNCHANGED <<wire, rest>>

TwiceSendProbe ==
    /\ Both("probe")
    /\ poll' = SendProbeStep(poll)
    /\ twin' = SendProbeStep(twin)
    /\ UNCHANGED <<wire, rest>>

TwiceProbeReturns ==
    /\ Both("probing")
    /\ \E resp \in ResponsesOf(poll.endpoint) :
         /\ poll' = ProbeReturnsStep(poll, resp)
         /\ twin' = ProbeReturnsStep(twin, resp)
         /\ wire' = resp
    /\ UNCHANGED rest

TwiceReturnExhausted ==
    /\ Both("exhausted")
    /\ poll' = ExhaustedStep(poll)
    /\ twin' = ExhaustedStep(twin)
    /\ UNCHANGED <<wire, rest>>

NextTwice ==
    \/ TwiceCall
    \/ TwiceInitialSleep
    \/ TwicePrecheck
    \/ TwiceNextAttempt
    \/ TwiceBackoff
    \/ TwiceBasicGet
    \/ TwiceSendProbe
    \/ TwiceProbeReturns
    \/ TwiceReturnExhausted

SpecTwice == Init /\ [][NextTwice]_vars

(***************************************************************************)
(* wait_for_health beside a check_agent_health loop: both are called with  *)
(* the same endpoint and the same max_attempts, and the k-th probe of each *)
(* is answered by the same response.  poll is wait_for_health, twin is the *)
(* check loop; each runs on its own between two probes.                    *)
(***************************************************************************)

\* Everything a poll does by itself, up to the moment its probe is out.
Runs(s) == s.pc \notin {"idle", "probing", "done"}

\* The results the environment is asked for at a step: a diagnostic has a
\* result only where the code runs it.
Asked(s, at, results) == IF s.pc = at THEN results ELSE {"none"}

RunStep(s, tcp, logs, got) ==
    CASE s.pc = "initial_sleep" -> InitialSleepStep(s)
      [] s.pc = "precheck" -> PrecheckStep(s, tcp, logs)
      [] s.pc = "loop" -> LoopStep(s)
      [] s.pc = "backoff" -> BackoffStep(s)
      [] s.pc = "basic_get" -> BasicGetStep(s, got)
      [] s.pc = "probe" -> SendProbeStep(s)
      [] s.pc = "exhausted" -> ExhaustedStep(s)

CheckLoops(endpoint) ==
    {deploy_check_agent_health(endpoint),
     helpers_check_agent_health(endpoint)}

LoopsCall ==
    /\ Both("idle")
    /\ \E e \in Endpoints, d \in InitialDelayArgs :
         \E check \in CheckLoops(e) :
            /\ poll' = wait_for_health(e, check.max_attempts, d)
            /\ twin' = check
    /\ UNCHANGED <<wire, rest>>

WaitRuns ==
    /\ Runs(poll)
    /\ \E tcp \in Asked(poll, "precheck", TcpResults),
          logs \in Asked(poll, "precheck", LogsResults),
          got \in Asked(poll, "basic_get", GetResults) :
         poll' = RunStep(poll, tcp, logs, got)
    /\ UNCHANGED <<twin, wire, rest>>

CheckRuns ==
    /\ Runs(twin)
    /\ \E tcp \in Asked(twin, "precheck", TcpResults),
          logs \in Asked(twin, "precheck", LogsResults),
          got \in Asked(twin, "basic_get", GetResults) :
         twin' = RunStep(twin, tcp, logs, got)
    /\ UNCHANGED <<poll, wire, rest>>

\* The response scripted for this probe, given to both loops.
SameOutcome ==
    /\ Both("probing")
    /\ \E resp \in ResponsesOf(poll.endpoint) :
         /\ poll' = ProbeReturnsStep(poll, resp)
         /\ twin' = ProbeReturnsStep(twin, resp)
         /\ wire' = resp
    /\ UNCHANGED rest

\* The check loop has returned without this probe: wait_for_health is the
\* only one to read the scripted response.
LoneOutcome ==
    /\ poll.pc = "probing" /\ Done(twin)
    /\ \E resp \in ResponsesOf(poll.endpoint) :
         /\ poll' = ProbeReturnsStep(poll, resp)
         /\ wire' = resp
    /\ UNCHANGED <<twin, rest>>

NextLoops ==
    \/ LoopsCall
    \/ WaitRuns
    \/ CheckRuns
    \/ SameOutcome
    \/ LoneOutcome

SpecLoops == Init /\ [][NextLoops]_vars

(***************************************************************************)
(* A deployment: handle_deploy_agent called by the job runner or by a      *)
(* test, the health check it runs, and what the test does with the agent   *)
(* afterwards.  The polls are the ones above; a poller called on its own   *)
(* is part of the specification too.                                       *)
(***************************************************************************)

pollVars == <<poll, twin, wire>>
portVars == <<jobs, agent_ports>>

\* What the caller can hand in: the tests serialize well-formed parameters
\* for an agent they have just created, and fix tee_enabled in the context.
ParamsOfCaller(test) == IF test = "job" THEN BOOLEAN ELSE {TRUE}
TeeEnabledOfCaller(test) ==
    CASE test = "test_deploy_agent_interaction" -> {FALSE}
      [] test = "test_deploy_agent_tee" -> {TRUE}
      [] OTHER -> BOOLEAN

\* The map entry of the agent being deployed: the pair create_agent stored
\* for the test's port, or for the job runner any stored pair or none.
EntriesOfCaller(c) ==
    IF c.test = "job"
    THEN StoredEntries \cup {NoEntry}
    ELSE {Entry(pair) : pair \in WebsocketPorts(CreateHttpPort(c.http_port))}

DeployCall ==
    /\ dep.pc = "idle" /\ client.pc = "idle" /\ poll.pc = "idle"
    /\ \E test \in Callers : \E pt \in CallerPorts(test) :
         client' = [NoClient EXCEPT !.test = test, !.http_port = pt,
                                    !.pc = "deploying"]
    /\ dep' = [NoDeployment EXCEPT !.pc = "start"]
    /\ UNCHANGED <<pollVars, portVars>>

DeployStart ==
    /\ dep.pc = "start"
    /\ \E params_ok \in ParamsOfCaller(client.test),
          dir_exists \in ParamsOfCaller(client.test),
          tee_enabled \in TeeEnabledOfCaller(client.test) :
         dep' = DeployStartStep(dep, params_ok, dir_exists, tee_enabled)
    /\ UNCHANGED <<client, pollVars, portVars>>

TeePrepare ==
    /\ dep.pc = "tee_prepare"
    /\ \E missing \in SUBSET TeeInputs, other \in TeeProviderErrors \cup {<<>>} :
         dep' = TeePrepareStep(dep, missing, other)
    /\ UNCHANGED <<client, pollVars, portVars>>

TeeLaunch ==
    /\ dep.pc = "tee_launch"
    /\ \E result \in TeeLaunchResults, app_id \in TeeAppIds :
         dep' = TeeLaunchStep(dep, result, app_id)
    /\ UNCHANGED <<client, pollVars, portVars>>

TeeReturn ==
    /\ dep.pc = "tee_return"
    /\ dep' = TeeReturnStep(dep)
    /\ UNCHANGED <<client, pollVars, portVars>>

Cleanup ==
    /\ dep.pc = "cleanup"
    /\ dep' = CleanupStep(dep)
    /\ UNCHANGED <<client, pollVars, portVars>>

GetPorts ==
    /\ dep.pc = "ports"
    /\ \E entry \in EntriesOfCaller(client), compose \in ComposeFiles :
         \E ports \in get_agent_ports(entry, compose) :
            dep' = PortsStep(dep, ports)
    /\ UNCHANGED <<client, pollVars, portVars>>

PrepareEnv ==
    /\ dep.pc = "env"
    /\ \E keys \in ApiKeyInputs, write_ok \in BOOLEAN,
          compose_exists \in BOOLEAN :
         dep' = EnvStep(dep, keys, write_ok, compose_exists)
    /\ UNCHANGED <<client, pollVars, portVars>>

Launch ==
    /\ dep.pc = "launch"
    /\ \E result \in LaunchResults : dep' = LaunchStep(dep, result)
    /\ UNCHANGED <<client, pollVars, portVars>>

StartHealth ==
    /\ dep.pc = "verify"
    /\ dep' = StartHealthStep(dep)
    /\ poll' = deploy_check_agent_health(LocalEndpoint(dep.port))
    /\ wire' = NoResponse
    /\ UNCHANGED <<client, twin, portVars>>

HealthReturns ==
    /\ dep.pc = "health" /\ Done(poll)
    /\ dep' = HealthReturnsStep(dep, poll.ret)
    /\ UNCHANGED <<client, pollVars, portVars>>

Diagnose ==
    /\ dep.pc = "diagnose"
    /\ \E inspect \in InspectResults : dep' = DiagnoseStep(dep, inspect)
    /\ UNCHANGED <<client, pollVars, portVars>>

LocalReturn ==
    /\ dep.pc = "return"
    /\ dep' = LocalReturnStep(dep)
    /\ UNCHANGED <<client, pollVars, portVars>>

ClientAfterDeploy ==
    /\ client.pc = "deploying" /\ dep.pc \in {"done", "panicked"}
    /\ \E on_err \in SkipOrPanic :
         client' = ClientAfterDeployStep(client, dep, on_err)
    /\ poll' = IF client'.pc = "waiting" THEN ClientPoll(client') ELSE poll
    /\ wire' = IF client'.pc = "waiting" THEN NoResponse ELSE wire
    /\ UNCHANGED <<dep, twin, portVars>>

ClientHealthReturns ==
    /\ client.pc = "waiting" /\ Done(poll)
    /\ client' = ClientAfterWaitStep(client, poll.ret)
    /\ UNCHANGED <<dep, pollVars, portVars>>

ClientInteract ==
    /\ client.pc = "interact"
    /\ client' = ClientInteractStep(client)
    /\ UNCHANGED <<dep, pollVars, portVars>>

ClientInteractReturns ==
    /\ client.pc = "interacting"
    /\ \E result \in InteractResults :
         client' = ClientInteractReturnsStep(client, result)
    /\ UNCHANGED <<dep, pollVars, portVars>>

NextDeploy ==
    \/ Next
    \/ DeployCall
    \/ DeployStart
    \/ TeePrepare
    \/ TeeLaunch
    \/ TeeReturn
    \/ Cleanup
    \/ GetPorts
    \/ PrepareEnv
    \/ Launch
    \/ StartHealth
    \/ HealthReturns
    \/ Diagnose
    \/ LocalReturn
    \/ ClientAfterDeploy
    \/ ClientHealthReturns
    \/ ClientInteract
    \/ ClientInteractReturns

SpecDeploy == Init /\ [][NextDeploy]_vars

(***************************************************************************)
(* create_agent and deploy_agent jobs running at the same time against one *)
(* ServiceContext.  A job's pc names the step it takes next.               *)
(***************************************************************************)

\* The steps that touch context.agent_ports, which a job takes while it holds
\* the MutexGuard returned by agent_ports.lock().
MapSteps == {"insert", "get", "log", "unlock"}

\* What a step does outside the process's memory.
\*   scaffold   setup_agent_directory, create_env_file      (files, cp)
\*   compose    docker::write_docker_compose_file           (file)
\*   tee_key    get_tee_public_key                          (network)
\*   tee        deploy_to_tee                               (files, network)
\*   cleanup    docker-compose down                         (process)
\*   extract    extract_ports_from_compose                  (file)
\*   deploying  .env, docker-compose up -d, health check    (all three)
\*   log        logging::info! of the pair, inside the block that holds the
\*              guard: a line handed to the process's log subscriber
IOKind(pc) ==
    CASE pc \in {"scaffold", "compose", "extract"} -> "file"
      [] pc = "cleanup" -> "process"
      [] pc \in {"tee_key", "tee"} -> "network"
      [] pc = "deploying" -> "process"
      [] pc = "log" -> "log"
      [] OTHER -> "none"

ExternalIO == {"file", "process", "network"}

JobResults == {"ok", "err"}

\* The result of a job whose last fallible call returned `result`.
JobRet(result) == IF result = "ok" THEN "Ok" ELSE "Err"

\* agent_dir.exists(): agent 0's directory was left by an earlier run of the
\* service, whose map is gone; another agent's is made by its create_agent
\* job in setup_agent_directory, and is there or not while that runs.
DirExists(js, a) ==
    CASE a = 0 -> {TRUE}
      [] a # 0 /\ js[a].kind # "create" -> {FALSE}
      [] a # 0 /\ js[a].kind = "create" /\ js[a].pc = "scaffold" -> BOOLEAN
      [] OTHER -> {js[a].dir}

\* templates/starter as copy_starter_template finds it: the files that matter
\* to a create_agent job.  setup_test_env writes .env.example,
\* docker-compose.yml (ports - '3000:3000') and Dockerfile.
\* The templates tried: the one of setup_test_env, one with a package.json
\* and no compose file, and one without .env.example.
TestTemplate == {".env.example", "docker-compose.yml"}
Templates ==
    {TestTemplate, {".env.example", "package.json"}, {"package.json"}}
TemplateCompose(template) ==
    IF "docker-compose.yml" \in template
    THEN Compose("mapping", "host_container", DefaultHttpPort)
    ELSE NoCompose

\* setup_agent_directory(..)?; create_env_file(..)?:
\*   "mkdir_failed"      create_dir_all / create_dir fails
\*   "template_missing"  templates/starter is not there (the directory is)
\*   "copied"            the template is copied; yarn / npm install may fail
\*                       and is not waited on for anything; .env is written
\*                       from .env.example
ScaffoldResults == {"mkdir_failed", "template_missing", "copied"}
ScaffoldStep(job, result, template) ==
    CASE result = "mkdir_failed" -> [job EXCEPT !.pc = "done", !.ret = "Err"]
      [] result = "template_missing" ->
            [job EXCEPT !.pc = "done", !.ret = "Err", !.dir = TRUE]
      [] OTHER ->
            IF ".env.example" \in template
            THEN [job EXCEPT !.pc = "ports", !.dir = TRUE,
                             !.files = template \cup {".env"},
                             !.compose = TemplateCompose(template)]
            ELSE [job EXCEPT !.pc = "done", !.ret = "Err", !.dir = TRUE,
                             !.files = template,
                             !.compose = TemplateCompose(template)]

\* docker.rs create_yaml_from_config: the first entry of ports is
\* "{http_port}:{http_port}".
WrittenCompose(http_port) == Compose("mapping", "host_container", http_port)

\* The paths handle_create_agent lists in files_created.
FilesCreated == {".env", "package.json", "docker-compose.yml"}

\* get_tee_public_key: Err, or Ok(Some(TeeConfig)) whose pubkey is the string
\* the provider sent as app_env_encrypt_pubkey.
TeeKeys == {"", "pk"}
TeeKeyResults ==
    {[tag |-> "Err", pubkey |-> <<>>]}
        \cup {[tag |-> "Ok", pubkey |-> <<k>>] : k \in TeeKeys}

\* The docker-compose.yml deploy_agent finds in the directory of agent a.
ComposeOnDisk(js, a) == IF a = 0 THEN ComposeFiles ELSE {js[a].compose}

\* Uuid::new_v4(): no two create_agent jobs get the same agent_id.
ReusedAgentId(j) == 1

FreshAgentId(j) == j

\* The holder of the mutex once the job has left the block that binds
\* ports_map: the guard is dropped at the end of the block in create_agent,
\* and in get_agent_ports by the return (hit) or at the end of the block
\* (miss), before the compose file is read.
GuardAfterBlockKept(j, job) ==
    IF job.kind = "deploy" /\ ~job.found THEN j ELSE 0

GuardAfterBlock(j, job) == 0

\* handle_create_agent is called: Uuid::new_v4 names the agent.
CreateCall(j) ==
    /\ jobs[j].pc = "idle"
    /\ jobs' = [jobs EXCEPT ![j] = [NoJob EXCEPT !.kind = "create",
                                                 !.agent_id = FreshAgentId(j),
                                                 !.pc = "scaffold"]]
    /\ UNCHANGED <<agent_ports, pollVars, dep, client>>

\* setup_agent_directory(..)?; create_env_file(..)?.
Scaffold(j) ==
    /\ jobs[j].pc = "scaffold"
    /\ \E result \in ScaffoldResults, template \in Templates :
          jobs' = [jobs EXCEPT ![j] = ScaffoldStep(jobs[j], result, template)]
    /\ UNCHANGED <<agent_ports, pollVars, dep, client>>

\* let http_port = ..unwrap_or(3000); let websocket_port = http_port + 1;
CreatePorts(j) ==
    /\ jobs[j].pc = "ports"
    /\ \E arg \in HttpPortArgs :
          \E pair \in WebsocketPorts(CreateHttpPort(arg)) :
             jobs' = [jobs EXCEPT
                        ![j] = IF pair.panic
                               THEN [jobs[j] EXCEPT !.pc = "panicked", !.arg = arg,
                                              !.http_port = pair.http_port]
                               ELSE [jobs[j] EXCEPT !.pc = "lock", !.arg = arg,
                                              !.http_port = pair.http_port,
                                              !.websocket_port =
                                                  pair.websocket_port]]
    /\ UNCHANGED <<agent_ports, pollVars, dep, client>>

\* agent_ports.lock() returns: the job owns the guard.
Lock(j) ==
    /\ jobs[j].pc = "lock"
    /\ agent_ports.holder = 0
    /\ agent_ports' = [agent_ports EXCEPT !.holder = j]
    /\ jobs' = [jobs EXCEPT
                  ![j].pc = IF jobs[j].kind = "create" THEN "insert" ELSE "get"]
    /\ UNCHANGED <<pollVars, dep, client>>

\* ports_map.insert(agent_id.clone(), AgentPortConfig { .. }).
Insert(j) ==
    /\ jobs[j].pc = "insert"
    /\ agent_ports' =
          [agent_ports EXCEPT !.map[jobs[j].agent_id] = Entry(jobs[j])]
    /\ jobs' = [jobs EXCEPT ![j].pc = "log"]
    /\ UNCHANGED <<pollVars, dep, client>>

\* ports_map.get(agent_id): on Some the stored pair is the job's, and is
\* logged before the return.
Get(j) ==
    /\ jobs[j].pc = "get"
    /\ jobs' = [jobs EXCEPT
                  ![j] = IF agent_ports.map[jobs[j].agent_id] # NoEntry
                         THEN [jobs[j] EXCEPT
                                 !.pc = "log", !.found = TRUE,
                                 !.http_port =
                                     agent_ports.map[jobs[j].agent_id].http_port,
                                 !.websocket_port =
                                     agent_ports.map[jobs[j].agent_id].websocket_port]
                         ELSE [jobs[j] EXCEPT !.pc = "unlock", !.found = FALSE]]
    /\ UNCHANGED <<agent_ports, pollVars, dep, client>>

\* logging::info!("Registered agent ..") / ("Using stored port configuration ..").
LogPorts(j) ==
    /\ jobs[j].pc = "log"
    /\ jobs' = [jobs EXCEPT ![j].pc = "unlock"]
    /\ UNCHANGED <<agent_ports, pollVars, dep, client>>

\* The job leaves the block: create_agent goes on to the compose file,
\* get_agent_ports returns the pair or falls back to the compose file.
Unlock(j) ==
    /\ jobs[j].pc = "unlock"
    /\ agent_ports' =
          [agent_ports EXCEPT !.holder = GuardAfterBlock(j, jobs[j])]
    /\ jobs' = [jobs EXCEPT
                  ![j].pc = IF jobs[j].kind = "create" THEN "compose"
                            ELSE IF jobs[j].found THEN "deploying"
                                 ELSE "extract"]
    /\ UNCHANGED <<pollVars, dep, client>>

\* docker::write_docker_compose_file(..)?, then the TEE key if asked for.
WriteCompose(j) ==
    /\ jobs[j].pc = "compose"
    /\ \E result \in JobResults, tee_enabled \in BOOLEAN :
          jobs' = [jobs EXCEPT
                     ![j] = IF result = "err"
                            THEN [jobs[j] EXCEPT !.pc = "done", !.ret = "Err"]
                            ELSE [jobs[j] EXCEPT
                                    !.pc = IF tee_enabled THEN "tee_key"
                                           ELSE "done",
                                    !.ret = IF tee_enabled THEN "none"
                                            ELSE "Ok",
                                    !.tee_enabled = tee_enabled,
                                    !.files = @ \cup {"docker-compose.yml"},
                                    !.compose =
                                        WrittenCompose(jobs[j].http_port)]]
    /\ UNCHANGED <<agent_ports, pollVars, dep, client>>

\* get_tee_public_key(&agent_dir, context).await?, then the result with
\* tee_public_key: tee_config.as_ref().and_then(|c| c.pubkey.clone()).
TeeKey(j) ==
    /\ jobs[j].pc = "tee_key"
    /\ \E result \in TeeKeyResults :
          jobs' = [jobs EXCEPT ![j].pc = "done",
                               ![j].ret = result.tag,
                               ![j].tee_public_key = result.pubkey]
    /\ UNCHANGED <<agent_ports, pollVars, dep, client>>

\* handle_deploy_agent is called for an agent: the directory check and the
\* choice between deploy_to_tee and deploy_locally.
DeployJobCall(j) ==
    /\ jobs[j].pc = "idle"
    /\ \E a \in AgentIds \ {j}, tee_enabled \in BOOLEAN :
          \E dir_exists \in DirExists(jobs, a) :
             jobs' = [jobs EXCEPT
                        ![j] = IF ~dir_exists
                               THEN [NoJob EXCEPT
                                       !.kind = "deploy", !.agent_id = a,
                                       !.pc = "done", !.ret = "Err"]
                               ELSE [NoJob EXCEPT
                                       !.kind = "deploy", !.agent_id = a,
                                       !.pc = IF tee_enabled THEN "tee"
                                              ELSE "cleanup"]]
    /\ UNCHANGED <<agent_ports, pollVars, dep, client>>

\* deploy_to_tee: it never asks for the ports.
TeeJob(j) ==
    /\ jobs[j].pc = "tee"
    /\ \E result \in JobResults :
          jobs' = [jobs EXCEPT ![j].pc = "done", ![j].ret = JobRet(result)]
    /\ UNCHANGED <<agent_ports, pollVars, dep, client>>

\* deploy_locally: docker-compose down, its outcome ignored.
CleanupJob(j) ==
    /\ jobs[j].pc = "cleanup"
    /\ jobs' = [jobs EXCEPT ![j].pc = "lock"]
    /\ UNCHANGED <<agent_ports, pollVars, dep, client>>

\* extract_ports_from_compose(agent_dir), after a miss.
Extract(j) ==
    /\ jobs[j].pc = "extract"
    /\ \E compose \in ComposeOnDisk(jobs, jobs[j].agent_id) :
          \E ports \in extract_port_config(compose) :
             jobs' = [jobs EXCEPT
                        ![j] = CASE ports.tag = "Ok" ->
                                      [jobs[j] EXCEPT
                                         !.pc = "deploying",
                                         !.http_port = ports.http_port,
                                         !.websocket_port =
                                             ports.websocket_port]
                                 [] ports.tag = "Err" ->
                                      [jobs[j] EXCEPT !.pc = "done", !.ret = "Err"]
                                 [] OTHER -> [jobs[j] EXCEPT !.pc = "panicked"]]
    /\ UNCHANGED <<agent_ports, pollVars, dep, client>>

\* The rest of deploy_locally.
Deploying(j) ==
    /\ jobs[j].pc = "deploying"
    /\ \E result \in JobResults :
          jobs' = [jobs EXCEPT ![j].pc = "done", ![j].ret = JobRet(result)]
    /\ UNCHANGED <<agent_ports, pollVars, dep, client>>

NextPorts ==
    \E j \in JobIds :
       \/ CreateCall(j)
       \/ Scaffold(j)
       \/ CreatePorts(j)
       \/ Lock(j)
       \/ Insert(j)
       \/ Get(j)
       \/ LogPorts(j)
       \/ Unlock(j)
       \/ WriteCompose(j)
       \/ TeeKey(j)
       \/ DeployJobCall(j)
       \/ TeeJob(j)
       \/ CleanupJob(j)
       \/ Extract(j)
       \/ Deploying(j)

SpecPorts == Init /\ [][NextPorts]_vars

(***************************************************************************)
(* Reading a poll.                                                         *)
(***************************************************************************)

\* The poll was given an endpoint in the sense of the data model (a base URL
\* with scheme, host and port), so the probe loop of helpers.rs is reached.
ReachesLoop(s) == s.impl = "helpers_check" => UrlHasHost(s.endpoint)

ExhaustedMsg(n) ==
    <<"Agent failed to become healthy after ", ToString(n), " attempts">>

Events(tr, kind) == {i \in DOMAIN tr : tr[i][1] = kind}
Count(tr, kind) == Cardinality(Events(tr, kind))

\* The number of probes made before position i of the trace.
ProbesBefore(tr, i) == Cardinality({j \in 1..(i - 1) : tr[j][1] = "probe"})

C2_FirstHealthyIsReady ==
    poll.healthy >= 1 =>
        /\ Done(poll) /\ poll.ret = Ok
        /\ poll.healthy = 1 /\ poll.inflight = 0
        /\ poll.probes = poll.attempt
        /\ poll.probes <= poll.max_attempts
        /\ poll.trace[Len(poll.trace)] = <<"probe", poll.probes>>
        /\ Count(poll.trace, "probe") = poll.probes

C2_Witness ==
    /\ Ready(poll) /\ poll.impl = "deploy_check"
    /\ poll.probes = poll.max_attempts
    /\ poll.lastErr = <<"Health check timed out after ">>

AbortMsgs == {<<"Invalid URL: ">>, <<"No host in URL">>}

CarriesOutcome(msg, err) ==
    err # <<>> /\ \E i \in DOMAIN msg : msg[i] = err[1]

CarriesAttempts(msg, n) == \E i \in DOMAIN msg : msg[i] = ToString(n)

(***************************************************************************)
(* C5 as claimed: the failure handed to the caller carries the number of   *)
(* attempts made and the last classified probe outcome.                    *)
(***************************************************************************)
C5_FailureCarriesLastOutcome ==
    (Done(poll) /\ Failed(poll) /\ poll.probes >= 1) =>
        /\ CarriesAttempts(poll.ret.msg, poll.probes)
        /\ CarriesOutcome(poll.ret.msg, poll.lastErr)

(***************************************************************************)
(* C5 as amended. The failure handed to the caller after probing is the    *)
(* text "Agent failed to become healthy after N attempts", N being         *)
(* max_attempts = the probes made; the last probe outcome is not in it,    *)
(* it is only logged, with its attempt number, when the attempt fails.     *)
(***************************************************************************)
C5_FailureCarriesAttemptsOnly ==
    (Done(poll) /\ Failed(poll) /\ poll.probes >= 1) =>
        /\ poll.ret.msg = ExhaustedMsg(poll.probes)
        /\ CarriesAttempts(poll.ret.msg, poll.max_attempts)
        /\ ~CarriesOutcome(poll.ret.msg, poll.lastErr)
        /\ poll.lastErr # <<>>
        /\ poll.warned = <<ToString(poll.probes)>> \o poll.lastErr

C5_Witness ==
    /\ Done(poll) /\ Failed(poll) /\ poll.impl = "wait_for_health"
    /\ poll.max_attempts = 3 /\ poll.probes = 3
    /\ poll.lastErr = <<"Health check timed out after ">>

RECURSIVE Pow(_, _)
Pow(b, k) == IF k <= 0 THEN 1 ELSE b * Pow(b, k - 1)

\* min(initial_delay * 1.5^(a-1), max_delay), max_delay < 0 meaning no cap.
ClaimedDelay(initial_delay, max_delay, a) ==
    LET d == (initial_delay * Pow(3, a - 1)) \div Pow(2, a - 1) IN
    IF max_delay >= 0 THEN Min(d, max_delay) ELSE d

DelayAfter(impl, initial_delay, a) ==
    CASE impl = "wait_for_health" ->
            (initial_delay * Pow(3, a - 1)) \div Pow(2, a - 1)
      [] impl = "deploy_check" -> 600 + 100 * a
      [] OTHER -> IF a >= 4 THEN 5000 ELSE (1000 * Pow(3, a)) \div Pow(2, a)

C7_BackoffMonotoneAndCapped ==
    /\ \A i, j \in Events(poll.trace, "backoff") :
         i < j => poll.trace[i][2] <= poll.trace[j][2]
    /\ poll.max_delay >= 0 =>
         \A i \in Events(poll.trace, "backoff") :
             poll.trace[i][2] <= poll.max_delay

C7_Witness ==
    /\ Done(poll) /\ poll.impl = "helpers_check"
    /\ Count(poll.trace, "backoff") = 14
    /\ \E i, j \in Events(poll.trace, "backoff") :
         /\ poll.trace[i][2] = 1500
         /\ poll.trace[j][2] = 5000

(***************************************************************************)
(* C8 as claimed: every poll sleeps its initial delay exactly once, before *)
(* attempt 1, and nothing else precedes attempt 1.                         *)
(***************************************************************************)
C8_InitialDelayOnceBeforeFirst ==
    poll.probes >= 1 =>
        /\ Count(poll.trace, "initial_delay") = 1
        /\ poll.trace[1] = <<"initial_delay", poll.initial_delay>>
        /\ poll.trace[2] = <<"probe", 1>>

(***************************************************************************)
(* C8 as amended. wait_for_health sleeps its initial_delay exactly once,   *)
(* before attempt 1; the check_agent_health loops sleep no initial delay   *)
(* (their initial_delay is only the base of the backoff); in every poller  *)
(* attempt 1 is not preceded by a backoff delay.                           *)
(***************************************************************************)
C8_InitialDelayOnlyInWaitForHealth ==
    /\ Count(poll.trace, "initial_delay") =
         IF poll.impl = "wait_for_health" /\ poll.pc # "initial_sleep"
         THEN 1 ELSE 0
    /\ poll.probes >= 1 =>
         IF poll.impl = "wait_for_health"
         THEN /\ poll.trace[1] = <<"initial_delay", poll.initial_delay>>
              /\ poll.trace[2] = <<"probe", 1>>
         ELSE poll.trace[1] = <<"probe", 1>>

C8_Witness ==
    /\ Done(poll) /\ poll.impl = "wait_for_health" /\ poll.probes = 3
    /\ poll.initial_delay = 500
    /\ Count(poll.trace, "initial_delay") = 1
    /\ Count(poll.trace, "backoff") = 2

(***************************************************************************)
(* C9. A finished poll never slept for backoff after its last probe: p     *)
(* probes come with at most p-1 backoff sleeps, and with max_attempts = 1  *)
(* there is exactly one probe and no backoff sleep, the verdict being Ok   *)
(* if that probe is healthy and the failure after 1 attempt otherwise.     *)
(***************************************************************************)
C9_NoBackoffAfterLastProbe ==
    Done(poll) =>
        /\ poll.probes >= 1 =>
             /\ poll.trace[Len(poll.trace)][1] = "probe"
             /\ Count(poll.trace, "backoff") <= poll.probes - 1
        /\ poll.probes = 0 => Count(poll.trace, "backoff") = 0
        /\ poll.max_attempts = 1 =>
             /\ poll.probes = 1
             /\ Count(poll.trace, "backoff") = 0
             /\ poll.ret = IF poll.healthy = 1
                           THEN Ok ELSE Err(ExhaustedMsg(1))

C9_Witness ==
    /\ Done(poll) /\ Failed(poll) /\ poll.impl = "wait_for_health"
    /\ poll.max_attempts = 1 /\ poll.probes = 1
    /\ Count(poll.trace, "backoff") = 0

RECURSIVE TotalBackoff(_)
TotalBackoff(tr) ==
    IF tr = <<>> THEN 0
    ELSE (IF Head(tr)[1] = "backoff" THEN Head(tr)[2] ELSE 0)
             + TotalBackoff(Tail(tr))

(***************************************************************************)
(* C10. Two runs of a poller with the same arguments and the same sequence *)
(* of probe responses go through the same states, make the same number of  *)
(* probes, sleep the same total backoff and return the same verdict,       *)
(* whatever their diagnostics see.                                         *)
(***************************************************************************)
C10_SameScriptSameRun ==
    /\ poll.pc = twin.pc /\ poll.attempt = twin.attempt
    /\ poll.probes = twin.probes
    /\ poll.trace = twin.trace
    /\ TotalBackoff(poll.trace) = TotalBackoff(twin.trace)
    /\ poll.ret = twin.ret

C10_Witness ==
    /\ Done(poll) /\ Done(twin) /\ poll.impl = "helpers_check"
    /\ Ready(poll) /\ poll.probes = 4
    /\ TotalBackoff(poll.trace) = 7125
    /\ poll.diag.tcp = "failed" /\ twin.diag.tcp = "connected"
    /\ poll.diag.get = "failed" /\ twin.diag.get = "2xx"

(***************************************************************************)
(* C11. check_health reports healthy exactly when the response to          *)
(* GET {base_url}/health has a 2xx status and a body that parses as JSON.  *)
(* Every other response (a non-2xx status such as 503 with body            *)
(* "starting", a 2xx with a body that is not JSON, any transport error) is *)
(* an error that the poller logs and retries: it ends the poll only when   *)
(* it is the answer to the last allowed attempt.                           *)
(***************************************************************************)
Healthy2xxJson(resp) ==
    resp.t = "http" /\ resp.status \in 200..299 /\ resp.body = "json"

\* The number of probes of the poll that have returned.
Returned(s) == s.probes - s.inflight

C11_HealthyIff2xxJson ==
    /\ (wire = NoResponse) <=> (Returned(poll) = 0)
    /\ wire # NoResponse =>
         /\ check_health(wire).ok <=> Healthy2xxJson(wire)
         /\ poll.healthy = IF Healthy2xxJson(wire) THEN 1 ELSE 0
         /\ Healthy2xxJson(wire) => Ready(poll)
         /\ ~Healthy2xxJson(wire) =>
              /\ poll.lastErr = check_health(wire).err
              /\ poll.lastErr # <<>>
              /\ Returned(poll) < poll.max_attempts => ~Done(poll)
              /\ Failed(poll) => Returned(poll) = poll.max_attempts
         /\ wire = Http(503, "text") =>
              poll.lastErr = <<"Health check returned error status: ", "503",
                               " with body: ", "text">>

C11_Witness ==
    /\ wire = Http(503, "text") /\ poll.pc = "backoff"
    /\ poll.impl = "wait_for_health" /\ poll.attempt = 1
    /\ poll.ret.tag = "none"

(***************************************************************************)
(* C12. The verdict of a poll is decided by its health probes alone: it is *)
(* Ready exactly when a probe was healthy.  wait_for_health and the        *)
(* check_agent_health of deploy_agent.rs run no diagnostics; in helpers.rs *)
(* the TCP connect, the docker logs inspection and the auxiliary GET leave *)
(* attempts, probes and verdict as they are, and the URL pre-check ends a  *)
(* poll only for an endpoint no probe of which could be healthy.  A poller *)
(* that has exhausted its attempts returns without further diagnostics;    *)
(* docker inspect and docker logs are run by deploy_locally after it got   *)
(* the failure, and change neither the verdict nor the poll.               *)
(***************************************************************************)
NeverHealthy(endpoint) ==
    \A r \in ResponsesOf(endpoint) : ~check_health(r).ok

C12_VerdictFromProbesOnly ==
    /\ [](Done(poll) => (Ready(poll) <=> poll.healthy = 1))
    /\ [](Failed(poll) =>
            /\ poll.healthy = 0
            /\ poll.probes < poll.max_attempts => NeverHealthy(poll.endpoint))
    /\ [](poll.impl \in {"wait_for_health", "deploy_check"} =>
            poll.diag = NoDiag)
    /\ [][poll.pc \in {"precheck", "basic_get"} =>
            /\ poll'.healthy = poll.healthy
            /\ poll'.probes = poll.probes
            /\ poll'.attempt = poll.attempt
            /\ ~Ready(poll')
            /\ Failed(poll') => NeverHealthy(poll.endpoint)]_vars
    /\ [][poll.pc = "exhausted" =>
            Done(poll') /\ poll'.diag = poll.diag]_vars
    /\ [][dep.pc = "diagnose" =>
            /\ poll' = poll
            /\ dep'.health = "Err" /\ dep.health = "Err"
            /\ dep'.ret = dep.ret]_vars

C12_Witness ==
    /\ Done(poll) /\ Ready(poll) /\ poll.impl = "helpers_check"
    /\ poll.probes = 4
    /\ poll.diag = [tcp |-> "failed", logs |-> "wallet_error",
                    get |-> "failed"]

(***************************************************************************)
(* C13. The probes of a poll are made one at a time and in order: a probe  *)
(* is sent only when none is in flight, the k-th probe sent is attempt k,  *)
(* attempt k+1 is sent only after attempt k has returned and the backoff   *)
(* sleep between them has elapsed.                                         *)
(***************************************************************************)
ProbeEvents(tr) == SelectSeq(tr, LAMBDA e : e[1] = "probe")

C13_ProbesStrictlySequential ==
    /\ [](poll.inflight \in {0, 1})
    /\ [](poll.inflight = 1 <=> poll.pc = "probing")
    /\ [](\A k \in DOMAIN ProbeEvents(poll.trace) :
             ProbeEvents(poll.trace)[k] = <<"probe", k>>)
    /\ [][poll'.probes # poll.probes =>
             /\ poll.inflight = 0 /\ poll'.inflight = 1
             /\ poll'.probes = poll.probes + 1
             /\ poll'.probes = poll.attempt
             /\ Returned(poll) = poll.probes
             /\ poll.probes >= 1 =>
                  poll.trace[Len(poll.trace)][1] = "backoff"]_vars

C13_Witness ==
    /\ poll.pc = "probing" /\ poll.inflight = 1
    /\ poll.impl = "helpers_check" /\ poll.attempt = 15
    /\ Returned(poll) = 14 /\ Count(poll.trace, "backoff") = 14

(***************************************************************************)
(* C14. The agent-id to port-pair map is read and written only by a job    *)
(* that holds its mutex, and a job holds the mutex only for the map read   *)
(* or insert (and the log line about it): whatever the interleaving of     *)
(* create_agent and deploy_agent jobs, the holder of the lock is never at  *)
(* a step that does file, process or network I/O.                          *)
(***************************************************************************)
C14_MapOnlyUnderLock ==
    /\ [](\A j \in JobIds :
             /\ jobs[j].pc \in MapSteps <=> agent_ports.holder = j
             /\ agent_ports.holder = j => IOKind(jobs[j].pc) \notin ExternalIO)
    /\ [][agent_ports'.map # agent_ports.map =>
             \E j \in JobIds :
                /\ agent_ports.holder = j
                /\ jobs[j].pc = "insert" /\ jobs'[j].pc = "log"
                /\ \A a \in AgentIds \ {jobs[j].agent_id} :
                      agent_ports'.map[a] = agent_ports.map[a]]_vars

\* A create_agent job holds the lock and is about to insert, while a
\* deploy_agent job that missed in the map and released the lock reads the
\* compose file, and a pair is already in the map.
C14_Witness ==
    \E j \in JobIds, k \in JobIds :
       /\ agent_ports.holder = j /\ jobs[j].pc = "insert"
       /\ jobs[k].kind = "deploy" /\ jobs[k].pc = "extract"
       /\ ~jobs[k].found

(***************************************************************************)
(* C15. The HTTP port of an agent is the supplied port, or 3000 when none  *)
(* is supplied, and the WebSocket port is http_port + 1 for every u16      *)
(* http_port, 65535 included: deriving the pair never fails.               *)
(***************************************************************************)
C15_WebsocketIsHttpPlusOne ==
    \A j \in JobIds :
       /\ jobs[j].pc # "panicked"
       /\ jobs[j].http_port # NoPort =>
             jobs[j].websocket_port = jobs[j].http_port + 1
       /\ jobs[j].kind = "create" /\ jobs[j].http_port # NoPort =>
             jobs[j].http_port = CreateHttpPort(jobs[j].arg)

(***************************************************************************)
(* C16. Once docker-compose up -d has succeeded, a failed health check     *)
(* does not fail a local deployment: handle_deploy_agent goes on to return *)
(* Ok with the endpoint http://localhost:{http_port}.                      *)
(***************************************************************************)
C16_FailedPollStillDeploys ==
    /\ (dep.kind = "local" /\ dep.launched = "ok" /\ dep.health = "Err") =>
          /\ dep.pc \in {"diagnose", "return", "done"}
          /\ dep.ret.tag # "Err"
    /\ (dep.kind = "local" /\ dep.launched = "ok" /\ dep.pc = "done") =>
          /\ dep.health \in {"Ok", "Err"}
          /\ dep.ret = DeployOk(LocalEndpoint(dep.port))

C16_Witness ==
    /\ dep.kind = "local" /\ dep.pc = "done" /\ dep.health = "Err"
    /\ dep.port = 8080 /\ dep.ret = DeployOk("http://localhost:8080")
    /\ Failed(poll) /\ poll.probes = 15 /\ dep.inspected = "failed"

(***************************************************************************)
(* C17. The endpoint is built and the health check called only after the   *)
(* launch has returned successfully.  When the launch fails (docker-compose*)
(* up -d cannot be run or exits with failure, or the TEE deployment is     *)
(* refused) handle_deploy_agent returns Err, and no poll is started and no *)
(* probe sent, by the job or by its caller.                                *)
(***************************************************************************)
C17_PollOnlyAfterLaunch ==
    /\ dep.endpoint # "none" => dep.launched = "ok"
    /\ dep.polled >= 1 => dep.launched = "ok" /\ dep.kind = "local"
    /\ (dep.pc # "idle" /\ dep.launched # "ok") =>
          /\ poll = Idle /\ wire = NoResponse
          /\ client.polls = 0 /\ client.interacts = 0
    /\ dep.launched = "failed" =>
          /\ dep.pc = "done" /\ dep.ret.tag = "Err"
          /\ dep.polled = 0 /\ dep.endpoint = "none"

C17_Witness ==
    /\ dep.kind = "local" /\ dep.launched = "failed" /\ dep.launches = 1
    /\ dep.ret = DeployErr(<<"Failed to start Docker container: ">>)
    /\ client.test = "test_deploy_agent_interaction" /\ client.pc = "done"
    /\ poll = Idle

(***************************************************************************)
(* C18. One handle_deploy_agent invocation runs the launch (docker-compose *)
(* up -d, or deploy_with_encrypted_env) at most once: no step of a poll    *)
(* and no failed probe leads to another launch.                            *)
(***************************************************************************)
C18_LaunchAtMostOnce ==
    /\ [](dep.launches <= 1)
    /\ [](dep.launches = 1 <=> dep.launched # "none")
    /\ [](dep.pc \in {"health", "diagnose", "return", "tee_return", "done"}
            => dep.pc = "done" \/ dep.launches = 1)
    /\ [][poll' # poll => dep'.launches = dep.launches]_vars
    /\ [][dep.launched # "none" => dep'.launches = dep.launches]_vars

C18_Witness ==
    /\ dep.kind = "local" /\ dep.launches = 1 /\ dep.pc = "done"
    /\ poll.impl = "deploy_check" /\ Failed(poll) /\ poll.probes = 15
    /\ poll.healthy = 0

(***************************************************************************)
(* C19 as claimed: after a successful launch, local or TEE, the poller has *)
(* been invoked and has given its verdict before handle_deploy_agent       *)
(* returns.                                                                *)
(***************************************************************************)
C19_PollsBeforeReturning ==
    (dep.pc = "done" /\ dep.launched = "ok") =>
        dep.polled = 1 /\ dep.health \in {"Ok", "Err"}

(***************************************************************************)
(* C19 as amended. After a successful local launch handle_deploy_agent     *)
(* calls check_agent_health on http://localhost:{port} once and gets its   *)
(* verdict before it returns; the verdict is logged, and the value         *)
(* returned is Ok with that endpoint for Ready and for Failed alike.       *)
(* After a successful TEE launch it calls no poller: it returns Ok with    *)
(* the endpoint the TEE API reported, if any, no probe having been sent.   *)
(***************************************************************************)
C19_LocalPollsTeeDoesNot ==
    (dep.pc = "done" /\ dep.launched = "ok") =>
        IF dep.kind = "local"
        THEN /\ dep.polled = 1 /\ dep.health \in {"Ok", "Err"}
             /\ dep.endpoint = LocalEndpoint(dep.port)
             /\ dep.ret = DeployOk(dep.endpoint)
             /\ client.pc = "deploying" =>
                   /\ poll.impl = "deploy_check" /\ Done(poll)
                   /\ poll.endpoint = dep.endpoint
                   /\ poll.ret.tag = dep.health
        ELSE /\ dep.polled = 0 /\ dep.health = "none"
             /\ dep.endpoint \in {TeeEndpoint, "none"}
             /\ dep.ret = DeployOk(dep.endpoint)
             /\ client.pc = "deploying" => poll = Idle

C19_Witness ==
    /\ dep.kind = "tee" /\ dep.pc = "done" /\ dep.launched = "ok"
    /\ dep.ret = DeployOk(TeeEndpoint) /\ dep.polled = 0
    /\ client.test = "test_deploy_agent_tee" /\ client.pc = "deploying"
    /\ poll = Idle

(***************************************************************************)
(* C20. POST {base_url}/interact is sent only once wait_for_health on that *)
(* endpoint has returned Ok, and at most once; when wait_for_health        *)
(* returns Err the test ends without sending it.                           *)
(***************************************************************************)
C20_InteractOnlyAfterReady ==
    /\ [](client.interacts \in {0, 1})
    /\ [](client.interacts = 1 =>
            /\ client.health = "Ok"
            /\ Done(poll) /\ Ready(poll) /\ poll.healthy = 1
            /\ poll.impl = "wait_for_health"
            /\ poll.endpoint = client.endpoint)
    /\ [](client.health = "Err" =>
            /\ client.interacts = 0 /\ client.pc = "done"
            /\ Failed(poll))
    /\ [][client'.interacts # client.interacts =>
            /\ Ready(poll) /\ client.health = "Ok"
            /\ poll.endpoint = client.endpoint]_vars

C20_Witness ==
    /\ client.test = "test_deploy_agent_tee" /\ client.interacts = 1
    /\ client.pc = "interacting"
    /\ poll.probes = 30 /\ poll.endpoint = "http://localhost:3000"

(***************************************************************************)
(* Reading a create_agent job.                                             *)
(***************************************************************************)

\* handle_create_agent returned Ok for job j.
Created(j) ==
    jobs[j].kind = "create" /\ jobs[j].pc = "done" /\ jobs[j].ret = "Ok"

\* The pair job j derived for its agent.
PairOf(j) ==
    [http_port |-> jobs[j].http_port, websocket_port |-> jobs[j].websocket_port]

\* Job j is a create_agent job that has left the block that inserts its pair.
Registered(j) ==
    /\ jobs[j].kind = "create"
    /\ jobs[j].http_port # NoPort
    /\ jobs[j].pc \in {"log", "unlock", "compose", "tee_key", "done"}

(***************************************************************************)
(* C21. Whenever handle_create_agent returns Ok, the result carries a      *)
(* non-empty TEE public key if deployment_config.tee_enabled is true and   *)
(* no TEE public key if it is false.                                       *)
(***************************************************************************)
C21_TeeKeyIffTeeEnabled ==
    \A j \in JobIds :
       Created(j) =>
          IF jobs[j].tee_enabled
          THEN jobs[j].tee_public_key \notin {<<>>, <<"">>}
          ELSE jobs[j].tee_public_key = <<>>

(***************************************************************************)
(* C22. Whenever handle_create_agent returns Ok, the agent directory       *)
(* exists and so does every path of files_created (.env, package.json,     *)
(* docker-compose.yml), whatever the starter template contains.            *)
(***************************************************************************)
C22_FilesCreatedExist ==
    \A j \in JobIds :
       Created(j) => jobs[j].dir /\ FilesCreated \subseteq jobs[j].files

(***************************************************************************)
(* C26. For an agent created with HTTP port p, the pair in the port map    *)
(* and the pair extracted from the docker-compose.yml that create wrote    *)
(* are the same, namely (p, p + 1).                                        *)
(***************************************************************************)
C26_MapAndComposeAgree ==
    \A j \in JobIds :
       Created(j) =>
          LET p == jobs[j].http_port
              pair == [http_port |-> p, websocket_port |-> p + 1]
          IN  /\ agent_ports.map[jobs[j].agent_id] = pair
              /\ extract_port_config(jobs[j].compose) = {PortsOk(pair)}

(***************************************************************************)
(* C27. Whatever the interleaving of create_agent and deploy_agent jobs,   *)
(* a create that has been through the locked block has left its pair under *)
(* its own agent_id; an entry of the map is never removed or changed; and  *)
(* the only step that changes the map is a create_agent job's insert under *)
(* its own agent_id (a deploy_agent job only reads).                       *)
(***************************************************************************)
C27_EntriesKept ==
    /\ [](\A j \in JobIds :
             Registered(j) => agent_ports.map[jobs[j].agent_id] = PairOf(j))
    /\ [][\A a \in AgentIds :
             agent_ports.map[a] # NoEntry =>
                agent_ports'.map[a] = agent_ports.map[a]]_vars
    /\ [][agent_ports'.map # agent_ports.map =>
             \E j \in JobIds :
                /\ jobs[j].kind = "create" /\ jobs[j].pc = "insert"
                /\ agent_ports'.map =
                      [agent_ports.map EXCEPT ![jobs[j].agent_id] = PairOf(j)]]_vars

\* Two create_agent jobs have registered different pairs, each under its own
\* agent_id, while one of them still runs.
C27_Witness ==
    \E j \in JobIds, k \in JobIds :
       /\ Registered(j) /\ Registered(k) /\ j # k
       /\ PairOf(j) # PairOf(k)
       /\ agent_ports.map[jobs[j].agent_id] = PairOf(j)
       /\ agent_ports.map[jobs[k].agent_id] = PairOf(k)
       /\ jobs[j].pc = "done" /\ jobs[k].pc = "unlock"

(***************************************************************************)
(* C28. handle_create_agent registers the pair before it writes            *)
(* docker-compose.yml and before it asks for the TEE public key; when one  *)
(* of those two fails it returns Err and nothing is rolled back: the map   *)
(* entry and the agent directory stay.                                     *)
(***************************************************************************)
C28_NoRollback ==
    \A j \in JobIds :
       jobs[j].kind = "create" =>
          /\ jobs[j].pc \in {"compose", "tee_key"} =>
                agent_ports.map[jobs[j].agent_id] = PairOf(j)
          /\ jobs[j].pc = "done" /\ jobs[j].http_port # NoPort =>
                /\ agent_ports.map[jobs[j].agent_id] = PairOf(j)
                /\ jobs[j].dir /\ ".env" \in jobs[j].files

\* A create_agent job failed to get the TEE public key after it had written
\* the compose file: it returned Err, and its entry and directory are there.
C28_Witness ==
    \E j \in JobIds :
       /\ jobs[j].kind = "create" /\ jobs[j].pc = "done" /\ jobs[j].ret = "Err"
       /\ jobs[j].tee_enabled
       /\ agent_ports.map[jobs[j].agent_id] = PairOf(j)
       /\ jobs[j].dir /\ jobs[j].compose = WrittenCompose(jobs[j].http_port)

(***************************************************************************)
(* C23. Whenever a TEE deployment returns Ok, the tee_app_id of its result *)
(* is present, whatever the TEE provider answered to the deployment        *)
(* request.                                                                *)
(***************************************************************************)
C23_TeeAppIdPresent ==
    dep.kind = "tee" /\ dep.ret.tag = "Ok" => dep.tee_app_id # "none"

(***************************************************************************)
(* C24. The environment lines deploy_locally logs hold no piece of the     *)
(* value of OPENAI_API_KEY, CDP_API_KEY_NAME or CDP_API_KEY_PRIVATE_KEY,   *)
(* also when a value spans several lines: the logged lines are those of a  *)
(* deployment with the same ports and any other values of the keys.        *)
(***************************************************************************)
SecretPieces == {"sk", "org", "pk1", "pk2"}

ReferenceKeys == ApiKeys(TRUE, <<<<"sk">>>>, <<<<"org">>>>, <<<<"pk1">>>>)

C24_LogHidesSecrets ==
    dep.logged # <<>> =>
       /\ \A i \in DOMAIN dep.logged : \A k \in DOMAIN dep.logged[i] :
             dep.logged[i][k] \notin SecretPieces
       /\ dep.logged =
             LoggedEnv(create_env_content(dep.port, dep.websocket_port,
                                          ReferenceKeys).content)

(***************************************************************************)
(* C29. A local handle_deploy_agent that fails a precondition (no agent    *)
(* directory, no API key configuration or an unresolvable key, no          *)
(* docker-compose.yml or no port to be read from it) returns Err, has not  *)
(* run docker-compose up -d and has issued no health probe.                *)
(***************************************************************************)
LocalPreconditionErrors ==
    (LocalPrepareErrors \ {<<"Failed to write .env file: ">>})
        \cup {<<"Agent directory does not exist: ">>,
              <<"Failed to read docker-compose.yml: ">>,
              <<"Failed to parse docker-compose.yml: ">>,
              <<"No services found in docker-compose.yml">>,
              <<"Failed to parse host port from '">>,
              <<"Failed to parse port from '">>}

KeysResolve(d) ==
    create_env_content(d.port, d.websocket_port, d.keys).tag = "Ok"

C29_PreconditionFailureNoLaunch ==
    dep.kind # "tee" =>
       /\ dep.ret.tag = "Err" /\ dep.ret.msg \in LocalPreconditionErrors =>
             /\ dep.pc = "done" /\ dep.launches = 0 /\ dep.polled = 0
             /\ poll.probes = 0
       /\ dep.pc \in {"launch", "verify", "health", "diagnose", "return"} =>
             KeysResolve(dep)
       /\ dep.launches > 0 => KeysResolve(dep)
       /\ dep.pc = "done" /\ dep.port # NoPort /\ ~KeysResolve(dep) =>
             dep.ret.tag = "Err" /\ dep.launches = 0 /\ dep.polled = 0

\* The ports were resolved and the private key could not be: the deployment
\* returned Err before any launch or probe.
C29_Witness ==
    /\ dep.kind = "local" /\ dep.pc = "done" /\ dep.port # NoPort
    /\ dep.keys.config /\ dep.keys.cdp_api_key_private_key = <<>>
    /\ dep.ret =
          DeployErr(<<"CDP_API_KEY_PRIVATE_KEY not found in ApiKeyConfig or environment">>)
    /\ dep.launches = 0 /\ dep.polled = 0 /\ poll.probes = 0

(***************************************************************************)
(* C30. A TEE deployment submits the workload only when the API key, the   *)
(* API endpoint, the agent's docker-compose.yml and the caller's encrypted *)
(* environment are all there: when one is missing, handle_deploy_agent     *)
(* returns Err and nothing is submitted.                                   *)
(***************************************************************************)
C30_TeeSubmitsOnlyWithAllInputs ==
    dep.kind = "tee" =>
       /\ dep.launches > 0 => dep.missing = {}
       /\ dep.pc = "tee_launch" => dep.missing = {}
       /\ dep.missing # {} =>
             /\ dep.pc = "done" /\ dep.ret.tag = "Err"
             /\ dep.launches = 0 /\ dep.launched = "none"

\* Only the encrypted environment is missing: the TEE pod was discovered, and
\* the deployment returned Err without a submission.
C30_Witness ==
    /\ dep.kind = "tee" /\ dep.missing = {"encrypted_env"}
    /\ dep.ret = DeployErr(TeeInputError("encrypted_env"))
    /\ dep.launches = 0 /\ dep.pc = "done"

(***************************************************************************)
(* C25. For the same max_attempts and the same scripted probe responses,   *)
(* wait_for_health (sleeping after a failed attempt) and a                 *)
(* check_agent_health loop (sleeping before the next attempt) return the   *)
(* same verdict after the same number of probes and the same number of     *)
(* backoff sleeps.                                                         *)
(***************************************************************************)
SameRun(w, c) ==
    /\ w.ret.tag = c.ret.tag
    /\ w.probes = c.probes
    /\ Count(w.trace, "backoff") = Count(c.trace, "backoff")

\* As stated, for every endpoint.  helpers.rs parses the endpoint before its
\* loop and returns Err on "localhost:3000" or "not a url" without a probe,
\* while wait_for_health probes such an endpoint max_attempts times.
C25_LoopsAgree ==
    Done(poll) /\ Done(twin) => SameRun(poll, twin)

\* C25, for the endpoints the loop of check_agent_health is reached with;
\* for the others the two differ as described above.
C25_LoopsAgreeOnceInLoop ==
    /\ Both("probing") =>
          /\ poll.probes = twin.probes
          /\ Count(poll.trace, "backoff") = Count(twin.trace, "backoff")
    /\ Done(poll) /\ Done(twin) /\ ReachesLoop(twin) => SameRun(poll, twin)
    /\ Done(poll) /\ Done(twin) /\ ~ReachesLoop(twin) =>
          /\ Failed(poll) /\ Failed(twin)
          /\ twin.probes = 0 /\ Count(twin.trace, "backoff") = 0
          /\ poll.probes = poll.max_attempts
          /\ Count(poll.trace, "backoff") = poll.max_attempts - 1

\* Both loops returned Ok on the third probe of a run of helpers.rs, after
\* two backoff sleeps each.
C25_Witness ==
    /\ poll.impl = "wait_for_health" /\ twin.impl = "helpers_check"
    /\ poll.max_attempts = twin.max_attempts
    /\ Ready(poll) /\ Ready(twin)
    /\ poll.probes = 3 /\ twin.probes = 3
    /\ Count(poll.trace, "backoff") = 2 /\ Count(twin.trace, "backoff") = 2

====
